---- MODULE Spec2Model ----
(***************************************************************************)
(* A model of wavgen: the tokenizer (src/parse/tokenizer.rs), the song and *)
(* expression parser (src/parse/mod.rs), the generation engine (src/gen.rs)*)
(* and the PCM loop (src/pcm.rs).                                          *)
(*                                                                         *)
(* Numbers.  An f64 is modelled by the real number it stands for: a        *)
(* rational [k |-> "rat", n, d] in lowest terms with d > 0, or one of the  *)
(* IEEE specials NaN and +-infinity, or the constants pi and e, or         *)
(* "opaque": a finite real the model does not compute (the value of a      *)
(* transcendental function, arithmetic on pi or e).  Rounding error of     *)
(* f64 arithmetic is not modelled.                                         *)
(*                                                                         *)
(* Text.  A text is a sequence of one-character strings.  All texts of the *)
(* model are ASCII, so a byte offset and a character offset agree.         *)
(***************************************************************************)
EXTENDS Integers, Sequences, FiniteSets, TLC

VARIABLES
    input,     \* the case the run was started on (what text or song was built from)
    text,      \* the source text handed to the parser (a sequence of characters)
    gi,        \* SpecExpr: the Option<GenInfo> handed to Expression::evaluate
    pc,        \* the position of the run
    expr,      \* SpecExpr: the outcome of Parser::parse_expression
    val,       \* SpecExpr: the outcome of Expression::evaluate
    songRes,   \* SpecSong: the outcome of get_song
    song,      \* SpecGen: the Song handed to generate_pcm
    gen,       \* SpecGen: the locals of generate_pcm and what it has written
    tokenizer, \* SpecTokens: the Tokenizer the tokens are asked from
    token      \* SpecTokens: the outcome of the last Tokenizer::get_next

vars == <<input, text, gi, pc, expr, val, songRes, song, gen, tokenizer, token>>

(***************************************************************************)
(* f64 values                                                              *)
(***************************************************************************)
Abs(x) == IF x < 0 THEN -x ELSE x

RECURSIVE Gcd(_, _)
Gcd(a, b) == IF b = 0 THEN a ELSE Gcd(b, a % b)

Rat(n, d) ==
    LET g == Gcd(Abs(n), Abs(d))
        s == IF d < 0 THEN -1 ELSE 1
    IN [k |-> "rat", n |-> (s * n) \div g, d |-> (s * d) \div g]

Int2Num(i) == [k |-> "rat", n |-> i, d |-> 1]
NaN == [k |-> "nan", n |-> 0, d |-> 1]
Inf(s) == [k |-> "inf", n |-> s, d |-> 1]
Opaque == [k |-> "opaque", n |-> 0, d |-> 1]
ConstPi == [k |-> "pi", n |-> 0, d |-> 1]
ConstE == [k |-> "e", n |-> 0, d |-> 1]

IsRat(x) == x.k = "rat"
IsNaN(x) == x.k = "nan"
IsInf(x) == x.k = "inf"
IsZero(x) == IsRat(x) /\ x.n = 0
Sgn(x) == IF x.n > 0 THEN 1 ELSE IF x.n < 0 THEN -1 ELSE 0

NumNeg(x) ==
    IF IsRat(x) THEN Rat(-x.n, x.d)
    ELSE IF IsInf(x) THEN Inf(-x.n)
    ELSE IF IsNaN(x) THEN NaN ELSE Opaque

NumAdd(x, y) ==
    IF IsNaN(x) \/ IsNaN(y) THEN NaN
    ELSE IF IsInf(x) /\ IsInf(y) THEN (IF x.n = y.n THEN x ELSE NaN)
    ELSE IF IsInf(x) THEN x
    ELSE IF IsInf(y) THEN y
    ELSE IF IsRat(x) /\ IsRat(y) THEN
        LET g == Gcd(x.d, y.d)
        IN Rat(x.n * (y.d \div g) + y.n * (x.d \div g), (x.d \div g) * y.d)
    ELSE Opaque

NumSub(x, y) == NumAdd(x, NumNeg(y))

NumMul(x, y) ==
    IF IsNaN(x) \/ IsNaN(y) THEN NaN
    ELSE IF IsInf(x) \/ IsInf(y) THEN
        (IF IsZero(x) \/ IsZero(y) THEN NaN
         ELSE IF (IsRat(x) \/ IsInf(x)) /\ (IsRat(y) \/ IsInf(y))
              THEN Inf(Sgn(x) * Sgn(y))
              ELSE Opaque)
    ELSE IF IsRat(x) /\ IsRat(y) THEN
        LET g1 == Gcd(Abs(x.n), y.d)
            g2 == Gcd(Abs(y.n), x.d)
        IN Rat((x.n \div g1) * (y.n \div g2), (x.d \div g2) * (y.d \div g1))
    ELSE IF IsZero(x) \/ IsZero(y) THEN Int2Num(0)
    ELSE Opaque

NumDiv(x, y) ==
    IF IsNaN(x) \/ IsNaN(y) THEN NaN
    ELSE IF IsInf(y) THEN (IF IsInf(x) THEN NaN ELSE Int2Num(0))
    ELSE IF IsZero(y) THEN
        (IF IsZero(x) THEN NaN
         ELSE IF IsRat(x) \/ IsInf(x) THEN Inf(Sgn(x)) ELSE Opaque)
    ELSE IF IsInf(x) THEN (IF IsRat(y) THEN Inf(Sgn(x) * Sgn(y)) ELSE Opaque)
    ELSE IF IsRat(x) /\ IsRat(y) THEN NumMul(x, Rat(y.d, y.n))
    ELSE Opaque

\* the integer part of a rational, rounded toward zero
Trunc(x) == IF x.n >= 0 THEN x.n \div x.d ELSE -((-x.n) \div x.d)
Floor(x) == x.n \div x.d

\* f64 % f64: the remainder has the sign of the dividend
NumMod(x, y) ==
    IF IsNaN(x) \/ IsNaN(y) \/ IsInf(x) \/ IsZero(y) THEN NaN
    ELSE IF IsInf(y) THEN x
    ELSE IF IsRat(x) /\ IsRat(y)
         THEN NumSub(x, NumMul(y, Int2Num(Trunc(NumDiv(x, y)))))
         ELSE Opaque

RECURSIVE IntPow(_, _)
IntPow(x, k) == IF k = 0 THEN Int2Num(1) ELSE NumMul(x, IntPow(x, k - 1))

\* f64::powf, computed for integer exponents
NumPow(x, y) ==
    IF IsZero(y) THEN Int2Num(1)
    ELSE IF IsNaN(x) \/ IsNaN(y) THEN NaN
    ELSE IF IsRat(x) /\ IsRat(y) /\ y.d = 1 THEN
        (IF y.n > 0 THEN IntPow(x, y.n)
         ELSE IF IsZero(x) THEN Inf(1)
         ELSE IntPow(NumDiv(Int2Num(1), x), -y.n))
    ELSE Opaque

\* x <= y and x < y of f64: false when either side is NaN (or not computed)
NumLe(x, y) ==
    IF IsRat(x) /\ IsRat(y) THEN x.n * y.d <= y.n * x.d
    ELSE IF IsInf(x) /\ IsInf(y) THEN x.n <= y.n
    ELSE IF IsInf(x) /\ IsRat(y) THEN x.n < 0
    ELSE IF IsRat(x) /\ IsInf(y) THEN y.n > 0
    ELSE FALSE

NumLt(x, y) ==
    IF IsRat(x) /\ IsRat(y) THEN x.n * y.d < y.n * x.d
    ELSE IF IsInf(x) /\ IsInf(y) THEN x.n < y.n
    ELSE IF IsInf(x) /\ IsRat(y) THEN x.n < 0
    ELSE IF IsRat(x) /\ IsInf(y) THEN y.n > 0
    ELSE FALSE

(***************************************************************************)
(* The tokenizer (src/parse/tokenizer.rs) over a StringSource              *)
(***************************************************************************)
\* Option<char>::None, as returned by get_char at the end of the input
EOF == "EOF"

Digits == {"0", "1", "2", "3", "4", "5", "6", "7", "8", "9"}

DigitVal(c) ==
    CASE c = "0" -> 0 [] c = "1" -> 1 [] c = "2" -> 2 [] c = "3" -> 3
      [] c = "4" -> 4 [] c = "5" -> 5 [] c = "6" -> 6 [] c = "7" -> 7
      [] c = "8" -> 8 [] c = "9" -> 9

\* 'a'..='z' | 'A'..='Z' | '_'
Letters ==
    {"a", "b", "c", "d", "e", "f", "g", "h", "i", "j", "k", "l", "m", "n", "o", "p", "q", "r", "s", "t", "u", "v", "w", "x", "y", "z", "A", "B", "C", "D", "E", "F", "G", "H", "I", "J", "K", "L", "M", "N", "O", "P", "Q", "R", "S", "T", "U", "V", "W", "X", "Y", "Z", "_"}

WhitespaceChars == {" ", "\n", "\t", "\r"}

\* the KEYWORDS table
Keyword(id) ==
    CASE id = <<"o", "n">> -> "OnKw"
      [] id = <<"f", "r", "o", "m">> -> "FromKw"
      [] id = <<"t", "o">> -> "ToKw"
      [] id = <<"_">> -> "Underscore"
      [] OTHER -> "Identifier"

\* Tokenizer::new over StringSource::new(name, text).  underflow records that a
\* usize subtraction went below zero (a panic in a checked build, a wrap in an
\* unchecked one); column and absolute_pos then continue as integers.
NewTokenizer(chars) ==
    [chars |-> chars, pos |-> 0, buffer |-> <<>>, lines |-> <<0>>,
     column |-> 0, absolute_pos |-> 0, emit_whitespace |-> FALSE,
     underflow |-> FALSE, read |-> <<>>]

\* Tokenizer::get_char with StringSource::get_next_char
GetChar(tz) ==
    LET fromBuf == tz.buffer # <<>>
        c == IF fromBuf THEN tz.buffer[Len(tz.buffer)]
             ELSE IF tz.pos >= Len(tz.chars) THEN EOF
             ELSE tz.chars[tz.pos + 1]
        t1 == IF fromBuf
              THEN [tz EXCEPT !.buffer = SubSeq(@, 1, Len(@) - 1)]
              ELSE [tz EXCEPT !.pos = @ + 1]
        ap == tz.absolute_pos + 1
        t2 == [t1 EXCEPT !.absolute_pos = ap,
                         !.read = Append(@, c),
                         !.lines = IF c = "\n" THEN Append(@, ap) ELSE @,
                         !.column = IF c = "\n" THEN 0
                                    ELSE IF c = "\t" THEN @ + 4 ELSE @ + 1]
    IN IF c = EOF THEN [tz |-> tz, c |-> EOF] ELSE [tz |-> t2, c |-> c]

\* Tokenizer::add_buffer
AddBuffer(tz, b) ==
    IF b = EOF THEN tz
    ELSE [tz EXCEPT
            !.buffer = Append(@, b),
            !.read = IF @ = <<>> THEN @ ELSE SubSeq(@, 1, Len(@) - 1),
            !.absolute_pos = @ - 1,
            !.lines = IF b = "\n" /\ Len(@) > 0 THEN SubSeq(@, 1, Len(@) - 1) ELSE @,
            !.column = IF b = "\n" THEN 0 ELSE IF b = "\t" THEN @ - 4 ELSE @ - 1,
            !.underflow = \/ @
                          \/ tz.absolute_pos < 1
                          \/ b = "\n" /\ Len(tz.lines) = 0
                          \/ b = "\t" /\ tz.column < 4
                          \/ b \notin {"\n", "\t"} /\ tz.column < 1]

\* unescape; "NUL" stands for the character '\0'
Unescape(c) ==
    CASE c = "0" -> "NUL" [] c = "t" -> "\t" [] c = "n" -> "\n" [] OTHER -> c

\* what one arm of get_next_with_whitespace yields: a token type with its
\* payload, an error (err), or no return at all (ty = "Hang")
P(tz, ty) == [tz |-> tz, ty |-> ty, num |-> Int2Num(0), str |-> <<>>, err |-> ""]
PNum(tz, ty, v) == [tz |-> tz, ty |-> ty, num |-> v, str |-> <<>>, err |-> ""]
PStr(tz, ty, s) == [tz |-> tz, ty |-> ty, num |-> Int2Num(0), str |-> s, err |-> ""]
PErr(tz, e) == [tz |-> tz, ty |-> "", num |-> Int2Num(0), str |-> <<>>, err |-> e]

NoMap == [c \in {} |-> ""]

\* match self.get_char()? { Some(x) => m[x], c => { add_buffer(c); dflt } },
\* given the outcome r of the get_char
TwoGot(r, m, dflt) ==
    IF r.c \in DOMAIN m THEN P(r.tz, m[r.c]) ELSE P(AddBuffer(r.tz, r.c), dflt)

Two(tz, m, dflt) == TwoGot(GetChar(tz), m, dflt)

\* the same with one more level under the character c1
ThreeGot(r, c1, m2, d2, m1, d1) ==
    IF r.c = c1 THEN Two(r.tz, m2, d2)
    ELSE IF r.c \in DOMAIN m1 THEN P(r.tz, m1[r.c])
    ELSE P(AddBuffer(r.tz, r.c), d1)

Three(tz, c1, m2, d2, m1, d1) == ThreeGot(GetChar(tz), c1, m2, d2, m1, d1)

\* the digit loops of get_num and get_float_or_int: the digits s read so far,
\* and r the outcome of the next get_char
RECURSIVE ReadDigits(_, _)
ReadDigitsGot(r, s) ==
    IF r.c \in Digits THEN ReadDigits(r.tz, Append(s, DigitVal(r.c)))
    ELSE [tz |-> r.tz, s |-> s, c |-> r.c]

ReadDigits(tz, s) == ReadDigitsGot(GetChar(tz), s)

\* int_part += s[i] * x; x *= 10, from the last digit to the first
RECURSIVE IntPart(_)
IntPart(s) ==
    IF s = <<>> THEN 0 ELSE IntPart(SubSeq(s, 1, Len(s) - 1)) * 10 + s[Len(s)]

RECURSIVE Pow10(_)
Pow10(k) == IF k = 0 THEN 1 ELSE 10 * Pow10(k - 1)

\* Tokenizer::get_float_or_int after its digit loop rd
GetFloatOrIntGot(rd, int_part) ==
    IF rd.s = <<>>
    THEN PNum(AddBuffer(AddBuffer(rd.tz, rd.c), "."), "IntLiteral", Int2Num(int_part))
    ELSE PNum(AddBuffer(rd.tz, rd.c), "FloatLiteral",
              NumAdd(Int2Num(int_part), Rat(IntPart(rd.s), Pow10(Len(rd.s)))))

\* Tokenizer::get_float_or_int
GetFloatOrInt(tz, int_part) == GetFloatOrIntGot(ReadDigits(tz, <<>>), int_part)

\* Tokenizer::get_num after its digit loop rd
GetNumGot(rd) ==
    IF rd.c = "." THEN GetFloatOrInt(rd.tz, IntPart(rd.s))
    ELSE PNum(AddBuffer(rd.tz, rd.c), "IntLiteral", Int2Num(IntPart(rd.s)))

\* Tokenizer::get_num
GetNum(tz, d) == GetNumGot(ReadDigits(tz, <<DigitVal(d)>>))

\* Tokenizer::get_num_like, the arm Some('m'), given the next get_char
GetNumLikeM(v, r2) ==
    IF r2.c = "s"
    THEN PNum(r2.tz, "DurationLiteral", NumMul(v, Rat(1, 10000)))
    ELSE PNum(AddBuffer(r2.tz, r2.c), "DurationLiteral", NumMul(v, Int2Num(1000)))

\* Tokenizer::get_num_like, the arm Some('h'), given the next get_char
GetNumLikeH(v, r2) ==
    IF r2.c = "z"
    THEN PNum(r2.tz, "FreqLiteral", NumMul(v, Rat(1, 10000)))
    ELSE PNum(AddBuffer(AddBuffer(r2.tz, "h"), r2.c), "DurationLiteral",
              NumMul(v, Int2Num(1000)))

\* Tokenizer::get_num_like, given its first get_char
GetNumLikeGot(num, r) ==
    CASE r.c = "s" -> PNum(r.tz, "DurationLiteral", num.num)
      [] r.c = "m" -> GetNumLikeM(num.num, GetChar(r.tz))
      [] r.c = "h" -> GetNumLikeH(num.num, GetChar(r.tz))
      [] OTHER -> PNum(AddBuffer(r.tz, r.c), num.ty, num.num)

\* Tokenizer::get_num_like
GetNumLike(num) == GetNumLikeGot(num, GetChar(num.tz))

\* the loop of the "//" arm: it ends only at a newline
RECURSIVE SingleLineComment(_)
SingleLineCommentGot(r) ==
    IF r.c = "\n" THEN P(AddBuffer(r.tz, "\n"), "SingleLineComment")
    ELSE IF r.c = EOF THEN P(r.tz, "Hang")
    ELSE SingleLineComment(r.tz)

SingleLineComment(tz) == SingleLineCommentGot(GetChar(tz))

\* the loop of the "/*" arm: it ends only when level reaches 0
RECURSIVE MultiLineComment(_, _)
MultiLineCommentSlash(r2, level) ==
    MultiLineComment(r2.tz, IF r2.c = "*" THEN level + 1 ELSE level)

MultiLineCommentStar(r2, level) ==
    IF r2.c = "/" /\ level = 1 THEN P(r2.tz, "MultiLineComment")
    ELSE MultiLineComment(r2.tz, IF r2.c = "/" THEN level - 1 ELSE level)

MultiLineCommentGot(r, level) ==
    CASE r.c = EOF -> P(r.tz, "Hang")
      [] r.c = "/" -> MultiLineCommentSlash(GetChar(r.tz), level)
      [] r.c = "*" -> MultiLineCommentStar(GetChar(r.tz), level)
      [] OTHER -> MultiLineComment(r.tz, level)

MultiLineComment(tz, level) == MultiLineCommentGot(GetChar(tz), level)

\* the loop of the identifier arm
RECURSIVE ReadIdent(_, _)
ReadIdentGot(r, id) ==
    IF r.c \in Letters THEN ReadIdent(r.tz, Append(id, r.c))
    ELSE P(AddBuffer(r.tz, r.c), Keyword(id))

ReadIdent(tz, id) == ReadIdentGot(GetChar(tz), id)

\* the loop of the whitespace arm
RECURSIVE ReadWhitespace(_)
ReadWhitespaceGot(r) ==
    IF r.c \in WhitespaceChars THEN ReadWhitespace(r.tz)
    ELSE P(AddBuffer(r.tz, r.c), "Whitespace")

ReadWhitespace(tz) == ReadWhitespaceGot(GetChar(tz))

\* the char literal arm: the closing quote q after the character c
ReadCharLiteralClose(q, c) ==
    IF q.c = "'" THEN PStr(q.tz, "CharLiteral", <<c>>)
    ELSE PErr(q.tz, "UnfinishedCharLiteral")

ReadCharLiteralEscaped(r2) ==
    IF r2.c = EOF THEN PErr(r2.tz, "UnfinishedCharLiteral")
    ELSE ReadCharLiteralClose(GetChar(r2.tz), Unescape(r2.c))

ReadCharLiteralGot(r) ==
    CASE r.c = EOF -> PErr(r.tz, "UnfinishedCharLiteral")
      [] r.c = "\\" -> ReadCharLiteralEscaped(GetChar(r.tz))
      [] OTHER -> ReadCharLiteralClose(GetChar(r.tz), r.c)

ReadCharLiteral(tz) == ReadCharLiteralGot(GetChar(tz))

\* the loop of the string literal arm
RECURSIVE ReadString(_, _)
ReadStringEscaped(r2, s) ==
    IF r2.c = EOF THEN PErr(r2.tz, "UnfinishedStringLiteral")
    ELSE ReadString(r2.tz, Append(s, Unescape(r2.c)))

ReadStringGot(r, s) ==
    CASE r.c = EOF -> PErr(r.tz, "UnfinishedStringLiteral")
      [] r.c = "\\" -> ReadStringEscaped(GetChar(r.tz), s)
      [] r.c = "\"" -> PStr(r.tz, "StringLiteral", s)
      [] OTHER -> ReadString(r.tz, Append(s, r.c))

ReadString(tz, s) == ReadStringGot(GetChar(tz), s)

\* the arms of get_next_with_whitespace without a look-ahead
SingleCharToken ==
    "(" :> "LeftParenthesis" @@ ")" :> "RightParenthesis" @@
    "[" :> "LeftSquareBraces" @@ "]" :> "RightSquareBraces" @@
    "{" :> "LeftCurlyBraces" @@ "}" :> "RightCurlyBraces" @@
    ":" :> "Colon" @@ "#" :> "HashSymbol" @@ "@" :> "AtSign" @@
    "," :> "Comma" @@ "?" :> "QuestionMark" @@ ";" :> "Semicolon"

\* the arm '/' of get_next_with_whitespace, given its get_char
SlashArm(r) ==
    CASE r.c = "=" -> P(r.tz, "SlashEquals")
      [] r.c = "/" -> SingleLineComment(r.tz)
      [] r.c = "*" -> MultiLineComment(r.tz, 1)
      [] OTHER -> P(AddBuffer(r.tz, r.c), "Slash")

\* match first_char { ... } of get_next_with_whitespace
TokenArm(tz, c) ==
    CASE c \in Digits -> GetNumLike(GetNum(tz, c))
      [] c = "+" -> Two(tz, "+" :> "DoublePlus" @@ "=" :> "PlusEquals", "Plus")
      [] c = "-" -> Two(tz, "-" :> "DoubleMinus" @@ "=" :> "MinusEquals", "Minus")
      [] c = "*" -> Three(tz, "*", "=" :> "DoubleStarEquals", "DoubleStar",
                          "=" :> "StarEquals", "Star")
      [] c = "." -> Three(tz, ".", "." :> "TripleDot", "DoubleDot", NoMap, "Dot")
      [] c = "$" -> Two(tz, "$" :> "DoubleDollar", "Dollar")
      [] c \in DOMAIN SingleCharToken -> P(tz, SingleCharToken[c])
      [] c = "~" -> Two(tz, "=" :> "TildaEquals", "Tilda")
      [] c = "%" -> Two(tz, "=" :> "PercentEquals", "Percent")
      [] c = "!" -> Two(tz, "=" :> "BangEquals", "Bang")
      [] c = "^" -> Two(tz, "=" :> "CaretEquals", "Caret")
      [] c = "=" -> Two(tz, "=" :> "DoubleEquals" @@ ">" :> "FatArrow", "Equals")
      [] c = "/" -> SlashArm(GetChar(tz))
      [] c \in Letters -> ReadIdent(tz, <<c>>)
      [] c \in WhitespaceChars -> ReadWhitespace(tz)
      [] c = "'" -> ReadCharLiteral(tz)
      [] c = "\"" -> ReadString(tz, <<>>)
      [] c = "<" -> Three(tz, "<", "=" :> "LeftShiftEquals", "LeftShift",
                          "=" :> "LesserThanEquals", "LesserThan")
      [] c = ">" -> Three(tz, ">", "=" :> "RightShiftEquals", "RightShift",
                          "=" :> "GreaterThanEquals", "GreaterThan")
      [] c = "&" -> Three(tz, "&", "=" :> "DoubleAndEquals", "DoubleAnd",
                          "=" :> "SingleAndEquals", "SingleAnd")
      [] c = "|" -> Three(tz, "|", "=" :> "DoubleOrEquals", "DoubleOr",
                          "=" :> "SingleOrEquals", "SingleOr")
      [] OTHER -> PErr(tz, "Invalid")

NoToken ==
    [ty |-> "", num |-> Int2Num(0), str |-> <<>>, start |-> 0, end |-> 0,
     line |-> 0, column |-> 0]

\* Tokenizer::get_position with Token::new
MkToken(p, start, start_line) ==
    [ty |-> p.ty, num |-> p.num, str |-> p.str,
     start |-> start, end |-> p.tz.absolute_pos - 1, line |-> start_line,
     column |-> IF start_line + 1 <= Len(p.tz.lines)
                THEN start - p.tz.lines[start_line + 1] ELSE 0]

\* the return of get_next_with_whitespace after the arm p of its match.  tag is
\* "Some" (Ok(Some(token))), "None" (Ok(None)), "Err" (Err(err)) or "Hang" (the
\* call does not return).
TokenResult(p, start, start_line) ==
    IF p.err # "" THEN [tz |-> p.tz, tag |-> "Err", tok |-> NoToken, err |-> p.err]
    ELSE IF p.ty = "Hang" THEN [tz |-> p.tz, tag |-> "Hang", tok |-> NoToken, err |-> ""]
    ELSE [tz |-> p.tz, tag |-> "Some", tok |-> MkToken(p, start, start_line), err |-> ""]

\* get_next_with_whitespace after its first get_char
GetNextWithWhitespaceGot(tz, r) ==
    IF r.c = EOF THEN [tz |-> tz, tag |-> "None", tok |-> NoToken, err |-> ""]
    ELSE TokenResult(TokenArm(r.tz, r.c), tz.absolute_pos, Len(tz.lines) - 1)

\* Tokenizer::get_next_with_whitespace
GetNextWithWhitespace(tz) ==
    GetNextWithWhitespaceGot([tz EXCEPT !.read = <<>>], GetChar([tz EXCEPT !.read = <<>>]))

\* Tokenizer::get_next
RECURSIVE GetNext(_)
GetNextGot(emit_whitespace, r) ==
    IF emit_whitespace THEN r
    ELSE IF r.tag = "Some" /\ r.tok.ty = "Whitespace" THEN GetNext(r.tz)
    ELSE r

GetNext(tz) == GetNextGot(tz.emit_whitespace, GetNextWithWhitespace(tz))

\* the characters that take two bytes in the text's UTF-8 encoding ("e'"
\* stands for the letter e with an acute accent), and char::len_utf8
TwoByteChars == {"e'"}
Utf8Len(c) == IF c \in TwoByteChars THEN 2 ELSE 1

\* the number of characters before the byte offset b of the text, found from
\* the n characters and off bytes passed so far; -1 when b is no character
\* boundary of the text or lies beyond it
RECURSIVE CharsBefore(_, _, _, _)
CharsBefore(chars, b, n, off) ==
    IF off = b THEN n
    ELSE IF off > b \/ n = Len(chars) THEN -1
    ELSE CharsBefore(chars, b, n + 1, off + Utf8Len(chars[n + 1]))

\* &self.text[a..b] of a str, given the characters before a and before b: a
\* panic unless a <= b and both are character boundaries within the text
SliceAt(chars, a, b, na, nb) ==
    IF a > b \/ na < 0 \/ nb < 0 THEN [panic |-> TRUE, text |-> <<>>]
    ELSE [panic |-> FALSE, text |-> SubSeq(chars, na + 1, nb)]

\* StringSource::get_text over TokenPosition's range start .. end + 1, which
\* From<&TokenPosition> builds from positions counted in characters
GetTextOfRange(chars, tok) ==
    SliceAt(chars, tok.start, tok.end + 1,
            CharsBefore(chars, tok.start, 0, 0), CharsBefore(chars, tok.end + 1, 0, 0))

\* the text get_text returns to the parser, whose texts hold one-byte
\* characters only
GetText(chars, tok) == GetTextOfRange(chars, tok).text

(***************************************************************************)
(* Expressions (src/parse/mod.rs): MathFunc, Expression::evaluate,         *)
(* Expression::construct                                                   *)
(***************************************************************************)
\* MathFunc::from_str; "" stands for Err(())
FuncFromStr(s) ==
    CASE s = <<"s", "i", "n">> -> "Sin"
      [] s = <<"c", "o", "s">> -> "Cos"
      [] s = <<"t", "a", "n">> -> "Tan"
      [] s = <<"l", "n">> -> "Ln"
      [] s = <<"l", "g">> -> "Log10"
      [] s = <<"l", "o", "g", "1", "0">> -> "Log10"
      [] s = <<"l", "o", "g", "2">> -> "Log2"
      [] s = <<"s", "q", "r", "t">> -> "Sqrt"
      [] s = <<"a", "b", "s">> -> "Abs"
      [] s = <<"r", "o", "u", "n", "d">> -> "Round"
      [] s = <<"f", "l", "o", "o", "r">> -> "Floor"
      [] s = <<"c", "e", "i", "l">> -> "Ceil"
      [] s = <<"r", "a", "d">> -> "Rad"
      [] s = <<"d", "e", "g">> -> "Deg"
      [] OTHER -> ""

\* MathFunc::is_func
IsFunc(s) == FuncFromStr(s) # ""

\* the exponent k with base^k = x, for a positive integer x that is such a power
RECURSIVE ExactLog(_, _, _)
ExactLog(base, x, k) ==
    IF x = 1 THEN Int2Num(k)
    ELSE IF x % base = 0 THEN ExactLog(base, x \div base, k + 1)
    ELSE Opaque

NumLog(base, x) ==
    IF IsNaN(x) THEN NaN
    ELSE IF IsInf(x) THEN (IF x.n > 0 THEN x ELSE NaN)
    ELSE IF ~IsRat(x) THEN Opaque
    ELSE IF x.n < 0 THEN NaN
    ELSE IF x.n = 0 THEN Inf(-1)
    ELSE IF x.d = 1 THEN ExactLog(base, x.n, 0)
    ELSE Opaque

\* the integer root of a perfect square, searched from r upward
RECURSIVE ExactSqrt(_, _)
ExactSqrt(x, r) ==
    IF r * r = x THEN Int2Num(r) ELSE IF r * r > x THEN Opaque ELSE ExactSqrt(x, r + 1)

\* MathFunc::call
MathCall(f, x) ==
    IF IsNaN(x) THEN NaN
    ELSE CASE f \in {"Sin", "Tan", "Rad", "Deg"} ->
                  IF IsZero(x) THEN x
                  ELSE IF IsInf(x) /\ f \in {"Sin", "Tan"} THEN NaN
                  ELSE IF IsInf(x) THEN x ELSE Opaque
           [] f = "Cos" ->
                  IF IsZero(x) THEN Int2Num(1) ELSE IF IsInf(x) THEN NaN ELSE Opaque
           [] f = "Ln" ->
                  IF IsRat(x) /\ x.n = x.d THEN Int2Num(0)
                  ELSE IF IsRat(x) /\ x.n > 0 THEN Opaque ELSE NumLog(2, x)
           [] f = "Log10" -> NumLog(10, x)
           [] f = "Log2" -> NumLog(2, x)
           [] f = "Sqrt" ->
                  IF IsInf(x) THEN (IF x.n > 0 THEN x ELSE NaN)
                  ELSE IF ~IsRat(x) THEN Opaque
                  ELSE IF x.n < 0 THEN NaN
                  ELSE IF x.d = 1 THEN ExactSqrt(x.n, 0) ELSE Opaque
           [] f = "Abs" ->
                  IF IsRat(x) THEN Rat(Abs(x.n), x.d)
                  ELSE IF IsInf(x) THEN Inf(1) ELSE Opaque
           [] f = "Round" ->
                  IF IsRat(x)
                  THEN Int2Num(Sgn(x) * ((2 * Abs(x.n) + x.d) \div (2 * x.d)))
                  ELSE IF IsInf(x) THEN x ELSE Opaque
           [] f = "Floor" ->
                  IF IsRat(x) THEN Int2Num(Floor(x))
                  ELSE IF IsInf(x) THEN x ELSE Opaque
           [] f = "Ceil" ->
                  IF IsRat(x) THEN Int2Num(-((-x.n) \div x.d))
                  ELSE IF IsInf(x) THEN x ELSE Opaque

\* Option<GenInfo>
NoGi == [some |-> FALSE, channel |-> 0, t |-> Int2Num(0)]
SomeGi(channel, t) == [some |-> TRUE, channel |-> channel, t |-> t]

\* Result<f64, ExpressionError>
EvOk(v) == [ok |-> TRUE, v |-> v, err |-> "", name |-> <<>>]
EvErr(e, name) == [ok |-> FALSE, v |-> NaN, err |-> e, name |-> name]

\* EvalVar with gi.unwrap_or_default() in place of gi.ok_or(NoGenInfo)?
EvalVarDefaultsWithoutGenInfo(name, g) ==
    CASE name = <<"p", "i">> -> EvOk(ConstPi)
      [] name = <<"e">> -> EvOk(ConstE)
      [] name \in {<<"c", "h", "a", "n", "n", "e", "l">>, <<"c", "h">>} ->
            EvOk(Int2Num(g.channel))
      [] name = <<"t">> -> EvOk(g.t)
      [] OTHER -> EvErr("UnknownVar", name)

\* the arm Self::VarOrConst(name) of Expression::evaluate (its second spelling
\* of pi is not ASCII, and no identifier token carries it)
EvalVar(name, g) ==
    CASE name = <<"p", "i">> -> EvOk(ConstPi)
      [] name = <<"e">> -> EvOk(ConstE)
      [] name \in {<<"c", "h", "a", "n", "n", "e", "l">>, <<"c", "h">>} ->
            IF g.some THEN EvOk(Int2Num(g.channel)) ELSE EvErr("NoGenInfo", <<>>)
      [] name = <<"t">> -> IF g.some THEN EvOk(g.t) ELSE EvErr("NoGenInfo", <<>>)
      [] OTHER -> EvErr("UnknownVar", name)

\* EvalBinary with the operands taken in the order of the variant's fields
EvalBinaryOperandsSwapped(op, b, a) ==
    CASE op = "Add" -> NumAdd(b, a)
      [] op = "Sub" -> NumSub(b, a)
      [] op = "Mul" -> NumMul(b, a)
      [] op = "Div" -> NumDiv(b, a)
      [] op = "Mod" -> NumMod(b, a)
      [] op = "Pow" -> NumPow(b, a)

\* the binary arms of Expression::evaluate: Self::Op(b, a) => a op b, where b is
\* the value of the variant's first field and a the value of its second
EvalBinary(op, b, a) ==
    CASE op = "Add" -> NumAdd(a, b)
      [] op = "Sub" -> NumSub(a, b)
      [] op = "Mul" -> NumMul(a, b)
      [] op = "Div" -> NumDiv(a, b)
      [] op = "Mod" -> NumMod(a, b)
      [] op = "Pow" -> NumPow(a, b)

BinaryOps == {"Add", "Sub", "Mul", "Div", "Mod", "Pow"}

\* Expression::evaluate.  A binary node is [op, f0, f1] with f0, f1 the variant's
\* fields in order; the second field is evaluated first.
RECURSIVE Evaluate(_, _)
Evaluate(e, g) ==
    CASE e.op \in BinaryOps ->
            LET a == Evaluate(e.f1, g)
                b == Evaluate(e.f0, g)
            IN IF ~a.ok THEN a ELSE IF ~b.ok THEN b
               ELSE EvOk(EvalBinary(e.op, b.v, a.v))
      [] e.op = "Call" ->
            LET arg == Evaluate(e.f0, g)
            IN IF ~arg.ok THEN arg ELSE EvOk(MathCall(e.f, arg.v))
      [] e.op = "VarOrConst" -> EvalVar(e.name, g)
      [] e.op = "Lit" -> EvOk(e.num)

Lit(n) == [op |-> "Lit", num |-> n]
\* Expression::zero
ExprZero == Lit(Int2Num(0))

\* the parser's Ty::NumberLiteral(_) is the tokenizer's IntLiteral or FloatLiteral
\* (Number::Integer, Number::Real)
IsNumberLiteral(t) == t.ty \in {"IntLiteral", "FloatLiteral"}

\* the variant Expression::construct builds for an operator token
BinaryNode(ty) ==
    CASE ty = "Plus" -> "Add"
      [] ty = "Minus" -> "Sub"
      [] ty = "Star" -> "Mul"
      [] ty = "Slash" -> "Sub"
      [] ty = "Caret" -> "Pow"
      [] ty = "Percent" -> "Mod"

OperatorTokens == {"Plus", "Minus", "Star", "Slash", "Caret", "Percent"}

\* Expression::construct over the output queue q of the text chars: the tree e
\* and what is left of q, or a panic (iter.pop().unwrap() on an empty queue,
\* todo!(), unreachable!())
RECURSIVE Construct(_, _)
Construct(chars, q) ==
    IF q = <<>> THEN [panic |-> TRUE, e |-> ExprZero, q |-> q]
    ELSE
    LET t == q[Len(q)]
        rest == SubSeq(q, 1, Len(q) - 1)
        s == GetText(chars, t)
        c1 == Construct(chars, rest)
        c2 == Construct(chars, c1.q)
    IN CASE IsNumberLiteral(t) -> [panic |-> FALSE, e |-> Lit(t.num), q |-> rest]
         [] t.ty = "Identifier" ->
                IF IsFunc(s)
                THEN [panic |-> c1.panic,
                      e |-> [op |-> "Call", f |-> FuncFromStr(s), f0 |-> c1.e],
                      q |-> c1.q]
                ELSE [panic |-> FALSE, e |-> [op |-> "VarOrConst", name |-> s],
                      q |-> rest]
         [] t.ty \in OperatorTokens ->
                IF c1.panic THEN c1
                ELSE [panic |-> c2.panic,
                      e |-> [op |-> BinaryNode(t.ty), f0 |-> c1.e, f1 |-> c2.e],
                      q |-> c2.q]
         [] t.ty \in {"LeftParenthesis", "RightParenthesis"} -> c1
         [] OTHER -> [panic |-> TRUE, e |-> ExprZero, q |-> rest]

(***************************************************************************)
(* The parser (src/parse/mod.rs)                                           *)
(***************************************************************************)
\* ParserError
NoErr == [kind |-> "", expected |-> "", found |-> "", inner |-> ""]
ErrKind(kind) == [kind |-> kind, expected |-> "", found |-> "", inner |-> ""]
ErrTokenizer(e) == [kind |-> "TokenizerError", expected |-> "", found |-> "", inner |-> e]
ErrUnexpected(ty) == [kind |-> "Unexpected", expected |-> "", found |-> ty, inner |-> ""]
ErrUnexpectedExact(expected, found) ==
    [kind |-> "UnexpectedExact", expected |-> expected, found |-> found, inner |-> ""]

\* ParserResult: tag is "Some", "Err" or "Done"; or the call does not return a
\* value: "Panic" (unwrap, expect, todo!, unreachable!) and "Hang" (the tokenizer
\* does not return).  p is the parser the call leaves behind.
Ret(p, v) == [tag |-> "Some", p |-> p, v |-> v, err |-> NoErr]
RetErr(p, e) == [tag |-> "Err", p |-> p, v |-> <<>>, err |-> e]
RetDone(p) == [tag |-> "Done", p |-> p, v |-> <<>>, err |-> NoErr]
RetPanic(p) == [tag |-> "Panic", p |-> p, v |-> <<>>, err |-> NoErr]
RetHang(p) == [tag |-> "Hang", p |-> p, v |-> <<>>, err |-> NoErr]
\* the ? operator on a result that is not Some (Try::branch, FromResidual)
Propagate(r) == [tag |-> r.tag, p |-> r.p, v |-> <<>>, err |-> r.err]

\* Parser::new; song_length_s starts as f64::NAN
NewParser(chars) ==
    [song_channels |-> 0, song_length_s |-> NaN,
     tokenizer |-> NewTokenizer(chars), buffer |-> <<>>]

\* Vec::push on the parser's buffer
PushBack(p, t) == [p EXCEPT !.buffer = Append(@, t)]

\* Parser::get_token when the buffer is empty, given the tokenizer's answer r
GetTokenGot(p, r) ==
    CASE r.tag = "Some" -> Ret([p EXCEPT !.tokenizer = r.tz], r.tok)
      [] r.tag = "None" -> RetDone([p EXCEPT !.tokenizer = r.tz])
      [] r.tag = "Err" -> RetErr([p EXCEPT !.tokenizer = r.tz], ErrTokenizer(r.err))
      [] r.tag = "Hang" -> RetHang([p EXCEPT !.tokenizer = r.tz])

\* Parser::get_token
GetToken(p) ==
    IF p.buffer # <<>>
    THEN Ret([p EXCEPT !.buffer = SubSeq(@, 1, Len(@) - 1)], p.buffer[Len(p.buffer)])
    ELSE GetTokenGot(p, GetNext(p.tokenizer))

\* Parser::eat after its get_token
EatGot(r, expected) ==
    IF r.tag # "Some" THEN Propagate(r)
    ELSE IF r.v.ty = expected THEN r
    ELSE RetErr(PushBack(r.p, r.v), ErrUnexpectedExact(expected, r.v.ty))

\* Parser::eat
Eat(p, expected) == EatGot(GetToken(p), expected)

\* the text a token stands for (Token::text, TokenPosition::get_text)
TokenText(p, t) == GetText(p.tokenizer.chars, t)

\* the terminate closures handed to parse_expression: of parse_song ("s"), of
\* parse_source ("hz") and of parse_vol ("no"); each discards the token it ends on
Terminates(term, s) ==
    CASE term = "s" -> s = <<"s">>
      [] term = "hz" -> s \in {<<"H", "z">>, <<"h", "z">>}
      [] term = "no" -> FALSE

\* prec of parse_expression
Prec(t) ==
    CASE t.ty = "LeftParenthesis" -> 0
      [] t.ty \in {"Plus", "Minus"} -> 1
      [] t.ty \in {"Slash", "Star", "Percent"} -> 2
      [] t.ty = "Caret" -> 3

\* assoc of parse_expression
Assoc(t) ==
    CASE t.ty \in {"LeftParenthesis", "RightParenthesis"} -> "NonAssoc"
      [] t.ty = "Caret" -> "Right"
      [] t.ty \in {"Slash", "Star", "Percent", "Plus", "Minus"} -> "Left"

\* the condition of the while loop of the operator arm of parse_expression
PopsOperator(ops, t) ==
    IF ops = <<>> THEN FALSE
    ELSE LET o2 == ops[Len(ops)]
         IN IF o2.ty # "LeftParenthesis" THEN FALSE
            ELSE Prec(o2) > Prec(t) \/ (Prec(t) = Prec(o2) /\ Assoc(t) = "Left")

\* the while loop of the operator arm: pop o2 into the output queue
RECURSIVE PopOperators(_, _, _)
PopOperators(out, ops, t) ==
    IF PopsOperator(ops, t)
    THEN PopOperators(Append(out, ops[Len(ops)]), SubSeq(ops, 1, Len(ops) - 1), t)
    ELSE [out |-> out, ops |-> ops]

\* the while loops of the "," and ")" arms: pop until a left parenthesis is on top
RECURSIVE PopToParenthesis(_, _)
PopToParenthesis(out, ops) ==
    IF ops # <<>> /\ ops[Len(ops)].ty # "LeftParenthesis"
    THEN PopToParenthesis(Append(out, ops[Len(ops)]), SubSeq(ops, 1, Len(ops) - 1))
    ELSE [out |-> out, ops |-> ops]

\* the loop after the token loop: pop the remaining operators into the queue;
\* a left parenthesis among them is todo!("mismatched parenthesis")
RECURSIVE PopRemaining(_, _)
PopRemaining(out, ops) ==
    IF ops = <<>> THEN [panic |-> FALSE, out |-> out]
    ELSE IF ops[Len(ops)].ty = "LeftParenthesis" THEN [panic |-> TRUE, out |-> out]
    ELSE PopRemaining(Append(out, ops[Len(ops)]), SubSeq(ops, 1, Len(ops) - 1))

\* the ")" arm of parse_expression after its while loop pp, for the token t
\* with text s: todo!() on an empty stack, else the parenthesis is popped and,
\* if a function is on top and s is a function name, the function too
RightParenthesisArm(pp, s) ==
    LET afterPop == SubSeq(pp.ops, 1, Len(pp.ops) - 1)
    IN IF pp.ops = <<>> THEN [panic |-> TRUE, out |-> pp.out, ops |-> pp.ops]
       ELSE IF /\ afterPop # <<>>
               /\ afterPop[Len(afterPop)].ty = "Identifier"
               /\ IsFunc(s)
       THEN [panic |-> FALSE, out |-> Append(pp.out, afterPop[Len(afterPop)]),
             ops |-> SubSeq(afterPop, 1, Len(afterPop) - 1)]
       ELSE [panic |-> FALSE, out |-> pp.out, ops |-> afterPop]

\* the token loop of parse_expression (the shunting yard): what it leaves in
\* the parser, the output queue and the operator stack
RECURSIVE TokenLoop(_, _, _, _)

\* the loop after the arm of a token left the queue and the stack in x
TokenLoopNext(p, x, term) == TokenLoop(p, x.out, x.ops, term)

TokenLoopParenthesis(p, x, term) ==
    IF x.panic THEN [tag |-> "Panic", p |-> p, out |-> x.out, ops |-> x.ops]
    ELSE TokenLoop(p, x.out, x.ops, term)

\* one round of the loop, given the outcome r of get_token and the text s of
\* the token
TokenLoopGot(r, s, out, ops, term) ==
    IF Terminates(term, s) THEN [tag |-> "Some", p |-> r.p, out |-> out, ops |-> ops]
    ELSE CASE IsNumberLiteral(r.v) -> TokenLoop(r.p, Append(out, r.v), ops, term)
           [] r.v.ty = "Identifier" ->
                 IF IsFunc(s) THEN TokenLoop(r.p, out, Append(ops, r.v), term)
                 ELSE TokenLoop(r.p, Append(out, r.v), ops, term)
           [] r.v.ty \in OperatorTokens ->
                 TokenLoopNext(r.p, [out |-> PopOperators(out, ops, r.v).out,
                                     ops |-> Append(PopOperators(out, ops, r.v).ops, r.v)],
                               term)
           [] r.v.ty = "Comma" -> TokenLoopNext(r.p, PopToParenthesis(out, ops), term)
           [] r.v.ty = "LeftParenthesis" -> TokenLoop(r.p, out, Append(ops, r.v), term)
           [] r.v.ty = "RightParenthesis" ->
                 TokenLoopParenthesis(
                     r.p, RightParenthesisArm(PopToParenthesis(out, ops), s), term)
           [] OTHER ->
                 [tag |-> "Some", p |-> PushBack(r.p, r.v), out |-> out, ops |-> ops]

\* while let Res::Some(t) = self.get_token(): any other answer ends the loop
TokenLoopGetToken(r, out, ops, term) ==
    IF r.tag = "Hang" THEN [tag |-> "Hang", p |-> r.p, out |-> out, ops |-> ops]
    ELSE IF r.tag # "Some" THEN [tag |-> "Some", p |-> r.p, out |-> out, ops |-> ops]
    ELSE TokenLoopGot(r, TokenText(r.p, r.v), out, ops, term)

TokenLoop(p, out, ops, term) == TokenLoopGetToken(GetToken(p), out, ops, term)

\* parse_expression after Expression::construct: the rest of the output queue
\* is appended to the parser's buffer
ParseExpressionConstructed(l, c) ==
    IF c.panic THEN RetPanic(l.p) ELSE Ret([l.p EXCEPT !.buffer = @ \o c.q], c.e)

\* parse_expression after the operator stack was emptied into the queue
ParseExpressionPopped(chars, l, rem) ==
    IF rem.panic THEN RetPanic(l.p)
    ELSE ParseExpressionConstructed(l, Construct(chars, rem.out))

\* parse_expression after its token loop l
ParseExpressionLooped(chars, l) ==
    IF l.tag = "Hang" THEN RetHang(l.p)
    ELSE IF l.tag = "Panic" THEN RetPanic(l.p)
    ELSE ParseExpressionPopped(chars, l, PopRemaining(l.out, l.ops))

\* Parser::parse_expression
ParseExpression(p, term) ==
    ParseExpressionLooped(p.tokenizer.chars, TokenLoop(p, <<>>, <<>>, term))

(***************************************************************************)
(* The song parser (src/parse/mod.rs) and the values it builds (src/gen.rs) *)
(***************************************************************************)
\* gen::Channels
ChannelsOne(k) == [k |-> "One", n |-> k]
ChannelsAll == [k |-> "All", n |-> 0]

\* TimeUnit with the scale get_num_like gives the suffix ms
TimeUnitMilliAsTenThousandth(txt) ==
    CASE txt = <<"h">> -> Int2Num(3600)
      [] txt = <<"m">> -> Int2Num(60)
      [] txt = <<"s">> -> Int2Num(1)
      [] txt = <<"m", "s">> -> Rat(1, 10000)
      [] txt = <<"n", "s">> -> Rat(1, 1000000000)
      [] OTHER -> Int2Num(0)

\* the seconds of a unit name in parse_time_unit; 0 stands for the `_` arm
TimeUnit(txt) ==
    CASE txt = <<"h">> -> Int2Num(3600)
      [] txt = <<"m">> -> Int2Num(60)
      [] txt = <<"s">> -> Int2Num(1)
      [] txt = <<"m", "s">> -> Rat(1, 1000)
      [] txt = <<"n", "s">> -> Rat(1, 1000000000)
      [] OTHER -> Int2Num(0)

\* parse_time_unit after its eat(Ty::Identifier)
ParseTimeUnitGot(r) ==
    IF r.tag # "Some" THEN Propagate(r)
    ELSE IF IsZero(TimeUnit(TokenText(r.p, r.v)))
    THEN RetErr(PushBack(r.p, r.v), ErrUnexpected(r.v.ty))
    ELSE Ret(r.p, TimeUnit(TokenText(r.p, r.v)))

\* Parser::parse_time_unit
ParseTimeUnit(p) == ParseTimeUnitGot(Eat(p, "Identifier"))

\* a bound of parse_timeframe written as the number n, given the outcome u of
\* parse_time_unit: if let Res::Some(u) = .. { n = (n * u) / parent_len_s }
TimeframeBound(n, u, parent_len_s) ==
    IF u.tag = "Some" THEN Ret(u.p, NumDiv(NumMul(n, u.v), parent_len_s))
    ELSE IF u.tag \in {"Hang", "Panic"} THEN Propagate(u)
    ELSE Ret(u.p, n)

\* parse_timeframe: Res::Some((start, end))
ParseTimeframeResult(start, e) ==
    IF e.tag # "Some" THEN Propagate(e)
    ELSE Ret(e.p, [start |-> start, end |-> e.v])

\* parse_timeframe: let end = match self.get_token().to_res_opt()? { .. }
ParseTimeframeEndGot(start, r, parent_len_s) ==
    CASE r.tag = "Some" /\ IsNumberLiteral(r.v) ->
            ParseTimeframeResult(
                start, TimeframeBound(r.v.num, ParseTimeUnit(r.p), parent_len_s))
      [] r.tag = "Some" /\ ~IsNumberLiteral(r.v) ->
            Ret(PushBack(r.p, r.v), [start |-> start, end |-> Int2Num(1)])
      [] r.tag = "Done" -> Ret(r.p, [start |-> start, end |-> Int2Num(1)])
      [] OTHER -> Propagate(r)

\* parse_timeframe after if need_colon { self.eat(Ty::Colon)?; }
ParseTimeframeEnd(start, c, parent_len_s) ==
    IF c.tag # "Some" THEN Propagate(c)
    ELSE ParseTimeframeEndGot(start, GetToken(c.p), parent_len_s)

\* parse_timeframe after its start s
ParseTimeframeColon(s, need_colon, parent_len_s) ==
    IF s.tag # "Some" THEN Propagate(s)
    ELSE ParseTimeframeEnd(
             s.v, IF need_colon THEN Eat(s.p, "Colon") ELSE Ret(s.p, NoToken),
             parent_len_s)

\* parse_timeframe: let start = match t.ty { .. }
ParseTimeframeStart(r, parent_len_s) ==
    IF r.tag # "Some" THEN Propagate(r)
    ELSE ParseTimeframeColon(
             CASE IsNumberLiteral(r.v) ->
                     TimeframeBound(r.v.num, ParseTimeUnit(r.p), parent_len_s)
               [] r.v.ty = "Colon" -> Ret(r.p, Int2Num(0))
               [] OTHER -> RetErr(r.p, ErrUnexpected(r.v.ty)),
             r.v.ty # "Colon", parent_len_s)

\* Parser::parse_timeframe
ParseTimeframe(p, parent_len_s) == ParseTimeframeStart(GetToken(p), parent_len_s)

\* parse_chan: match self.get_token()?.ty { .. }
ParseChanGot(r) ==
    IF r.tag # "Some" THEN Propagate(r)
    ELSE CASE r.v.ty = "IntLiteral" -> Ret(r.p, ChannelsOne(Trunc(r.v.num)))
           [] r.v.ty = "Star" -> Ret(r.p, ChannelsAll)
           [] OTHER -> RetErr(r.p, ErrUnexpected(r.v.ty))

\* parse_chan after self.eat(Ty::OnKw)
ParseChanOn(r) == IF r.tag # "Some" THEN Propagate(r) ELSE ParseChanGot(GetToken(r.p))

\* Parser::parse_chan
ParseChan(p) == ParseChanOn(Eat(p, "OnKw"))

\* parse_vol after self.eat(Ty::AtSign)
ParseVolAt(r) == IF r.tag # "Some" THEN Propagate(r) ELSE ParseExpression(r.p, "no")

\* Parser::parse_vol
ParseVol(p) == ParseVolAt(Eat(p, "AtSign"))

\* the gen::EffectType of an effect name; "" stands for the `_` arm
EffectTypeOf(name) ==
    CASE name = <<"f", "a", "d", "e", "_", "i", "n">> -> "FadeIn"
      [] name = <<"f", "a", "d", "e", "_", "o", "u", "t">> -> "FadeOut"
      [] OTHER -> ""

\* parse_effect after its parse_timeframe tf
ParseEffectTimeframe(name, tf) ==
    IF tf.tag # "Some" THEN Propagate(tf)
    ELSE IF EffectTypeOf(name) = "" THEN RetErr(tf.p, ErrUnexpected("Identifier"))
    ELSE Ret(tf.p, [ty |-> EffectTypeOf(name), start |-> tf.v.start, end |-> tf.v.end])

\* parse_effect after self.eat(Ty::Identifier)
ParseEffectName(r, parent_len_s) ==
    IF r.tag # "Some" THEN Propagate(r)
    ELSE ParseEffectTimeframe(TokenText(r.p, r.v), ParseTimeframe(r.p, parent_len_s))

\* Parser::parse_effect
ParseEffect(p, parent_len_s) == ParseEffectName(Eat(p, "Identifier"), parent_len_s)

\* while let Res::Some(e) = self.parse_effect(len_s) { effects.push(e); }
RECURSIVE EffectLoop(_, _, _)
EffectLoopGot(e, len_s, effects) ==
    IF e.tag = "Some" THEN EffectLoop(e.p, len_s, Append(effects, e.v))
    ELSE IF e.tag \in {"Hang", "Panic"} THEN Propagate(e)
    ELSE Ret(e.p, effects)

EffectLoop(p, len_s, effects) == EffectLoopGot(ParseEffect(p, len_s), len_s, effects)

\* the gen::PeriodicSource of a wave type name; "" stands for the `_` arm
PeriodicSourceOf(wave_type) ==
    CASE wave_type \in {<<"s", "i", "n">>, <<"s", "i", "n", "e">>} -> "Sine"
      [] wave_type = <<"s", "a", "w">> -> "Saw"
      [] wave_type \in {<<"t", "r", "i">>, <<"t", "r", "i", "a", "n", "g", "l", "e">>} ->
            "Triangle"
      [] wave_type = <<"s", "q", "u", "a", "r", "e">> -> "Square"
      [] OTHER -> ""

\* parse_source, from its end to its start: Res::Some(gen::Source { .. }) after
\* the optional effect block
ParseSourceClose(src, r) == IF r.tag # "Some" THEN Propagate(r) ELSE Ret(r.p, src)

ParseSourceEffects(src, l) ==
    IF l.tag # "Some" THEN Propagate(l)
    ELSE ParseSourceClose([src EXCEPT !.effects = l.v], Eat(l.p, "RightCurlyBraces"))

\* if let Res::Some(_) = self.eat(Ty::LeftCurlyBraces) { .. }
ParseSourceCurly(src, r, song_length_s) ==
    IF r.tag = "Some"
    THEN ParseSourceEffects(
             src,
             EffectLoop(r.p, NumMul(NumSub(src.end, src.start), song_length_s), <<>>))
    ELSE IF r.tag \in {"Hang", "Panic"} THEN Propagate(r)
    ELSE Ret(r.p, src)

ParseSourceVol(src, v) ==
    IF v.tag # "Some" THEN Propagate(v)
    ELSE ParseSourceCurly([src EXCEPT !.volume = v.v], Eat(v.p, "LeftCurlyBraces"),
                          v.p.song_length_s)

ParseSourceChan(src, c) ==
    IF c.tag # "Some" THEN Propagate(c)
    ELSE ParseSourceVol([src EXCEPT !.channels = c.v], ParseVol(c.p))

ParseSourceParenthesis(src, r) ==
    IF r.tag # "Some" THEN Propagate(r) ELSE ParseSourceChan(src, ParseChan(r.p))

ParseSourceTimeframe(src, tf) ==
    IF tf.tag # "Some" THEN Propagate(tf)
    ELSE ParseSourceParenthesis([src EXCEPT !.start = tf.v.start, !.end = tf.v.end],
                                Eat(tf.p, "RightParenthesis"))

ParseSourceComma(src, r) ==
    IF r.tag # "Some" THEN Propagate(r)
    ELSE ParseSourceTimeframe(src, ParseTimeframe(r.p, r.p.song_length_s))

\* SourceType::Periodic { freq, phase: Expression::zero(), ty }
ParseSourceFreq(wave_type, f) ==
    IF f.tag # "Some" THEN Propagate(f)
    ELSE ParseSourceComma(
             [ty |-> [freq |-> f.v, phase |-> ExprZero, ty |-> PeriodicSourceOf(wave_type)],
              start |-> NaN, end |-> NaN, channels |-> ChannelsAll,
              volume |-> ExprZero, effects |-> <<>>],
             Eat(f.p, "Comma"))

ParseSourceType(wave_type_t, r) ==
    IF r.tag # "Some" THEN Propagate(r)
    ELSE IF PeriodicSourceOf(TokenText(r.p, wave_type_t)) = ""
    THEN RetErr(r.p, ErrUnexpected(wave_type_t.ty))
    ELSE ParseSourceFreq(TokenText(r.p, wave_type_t), ParseExpression(r.p, "hz"))

ParseSourceName(r) ==
    IF r.tag # "Some" THEN Propagate(r)
    ELSE ParseSourceType(r.v, Eat(r.p, "LeftParenthesis"))

\* Parser::parse_source
ParseSource(p) == ParseSourceName(Eat(p, "Identifier"))

\* while let Some(s) = self.parse_source().to_res_opt()? { sources.push(s); }
\* and the Res::Some(Song { .. }) after it
RECURSIVE SourceLoop(_, _, _)
SourceLoopGot(s, name, sources) ==
    CASE s.tag = "Some" -> SourceLoop(s.p, name, Append(sources, s.v))
      [] s.tag = "Done" ->
            Ret(s.p, [channels |-> s.p.song_channels, length_s |-> s.p.song_length_s,
                      sources |-> sources, name |-> name])
      [] OTHER -> Propagate(s)

SourceLoop(p, name, sources) == SourceLoopGot(ParseSource(p), name, sources)

\* parse_song: self.song_channels = match self.parse_chan()? { .. }
ParseSongChannels(name, c) ==
    IF c.tag # "Some" THEN Propagate(c)
    ELSE IF c.v.k # "One" THEN RetErr(c.p, ErrKind("MissingChannels"))
    ELSE SourceLoop([c.p EXCEPT !.song_channels = c.v.n], name, <<>>)

\* parse_song: self.song_length_s = self.parse_expression(..)?.evaluate(None).unwrap()
ParseSongLength(name, e, length) ==
    IF e.tag # "Some" THEN Propagate(e)
    ELSE IF ~length.ok THEN RetPanic(e.p)
    ELSE ParseSongChannels(name, ParseChan([e.p EXCEPT !.song_length_s = length.v]))

ParseSongExpression(name, e) ==
    ParseSongLength(name, e, IF e.tag = "Some" THEN Evaluate(e.v, NoGi) ELSE EvOk(NaN))

\* parse_song's name match with every token taken as the name
ParseSongNameFromAnyToken(r) ==
    IF r.tag # "Some" THEN Propagate(r)
    ELSE ParseSongExpression(r.v.str, ParseExpression(r.p, "s"))

\* parse_song: let name = match self.get_token()? { .. }
ParseSongName(r) ==
    IF r.tag # "Some" THEN Propagate(r)
    ELSE IF r.v.ty # "StringLiteral" THEN RetErr(r.p, ErrKind("MissingName"))
    ELSE ParseSongExpression(r.v.str, ParseExpression(r.p, "s"))

\* Parser::parse_song
ParseSong(p) == ParseSongName(GetToken(p))

\* get_song: "Ok" with the Song, "Err" with the error, or no return ("Panic":
\* the todo!() of Res::Done and the panics below it; "Hang")
GetSongMatch(r) ==
    CASE r.tag = "Some" -> [tag |-> "Ok", song |-> r.v, err |-> NoErr]
      [] r.tag = "Err" -> [tag |-> "Err", song |-> <<>>, err |-> r.err]
      [] r.tag = "Done" -> [tag |-> "Panic", song |-> <<>>, err |-> NoErr]
      [] OTHER -> [tag |-> r.tag, song |-> <<>>, err |-> NoErr]

GetSong(src) == GetSongMatch(ParseSong(NewParser(src)))

(***************************************************************************)
(* The generation engine (src/gen.rs)                                      *)
(***************************************************************************)
\* Channels::has with every selector taken as Channels::All
HasWhateverTheSelector(channels, c) == TRUE

\* Channels::has (the parser builds no Channels::List)
Has(channels, c) ==
    CASE channels.k = "One" -> c = channels.n
      [] channels.k = "All" -> TRUE

\* Contains with every window taken as holding t
ContainsWhateverTheWindow(start, end, t) == TRUE

\* RangeInclusive<f64>::contains: (start..=end).contains(&t)
Contains(start, end, t) == NumLe(start, t) /\ NumLe(t, end)

\* GenInfo::new
GenInfoNew(parent, start, end) ==
    SomeGi(parent.channel, NumDiv(NumSub(parent.t, start), NumSub(end, start)))

\* f64::fract: self - self.trunc()
Fract(x) ==
    IF IsRat(x) THEN NumSub(x, Int2Num(Trunc(x)))
    ELSE IF IsNaN(x) \/ IsInf(x) THEN NaN ELSE Opaque

\* sine: TAU is a real the model does not compute with
sine(t, freq, phase) == MathCall("Sin", NumAdd(NumMul(NumMul(t, freq), Opaque), phase))

saw(t, freq, phase) ==
    NumSub(NumMul(Fract(NumAdd(NumMul(t, freq), phase)), Int2Num(2)), Int2Num(1))

square(t, freq, phase) ==
    IF NumLt(NumMod(NumAdd(t, phase), NumDiv(Int2Num(1), freq)),
             NumDiv(NumDiv(Int2Num(1), freq), Int2Num(2)))
    THEN Int2Num(1) ELSE Int2Num(-1)

triangle(t, freq, phase) ==
    NumMul(NumSub(MathCall("Abs", saw(t, freq, phase)), Rat(1, 2)), Int2Num(2))

\* SourceType::gen after phase.evaluate(gi)? and freq.evaluate(gi)?
SourceTypeGenEvaluated(ty, t, phase, freq) ==
    IF ~phase.ok THEN phase
    ELSE IF ~freq.ok THEN freq
    ELSE EvOk(CASE ty = "Sine" -> sine(t, freq.v, phase.v)
                [] ty = "Saw" -> saw(t, freq.v, phase.v)
                [] ty = "Square" -> square(t, freq.v, phase.v)
                [] ty = "Triangle" -> triangle(t, freq.v, phase.v))

\* SourceType::gen
SourceTypeGen(ty, g) ==
    SourceTypeGenEvaluated(ty.ty, g.t, Evaluate(ty.phase, g), Evaluate(ty.freq, g))

\* EffectType::apply with FadeOut taken as FadeIn
EffectTypeApplyFadesIn(ty, v, g) == NumMul(v, g.t)

\* EffectType::apply
EffectTypeApply(ty, v, g) ==
    CASE ty = "FadeIn" -> NumMul(v, g.t)
      [] ty = "FadeOut" -> NumMul(v, NumSub(Int2Num(1), g.t))

\* a GenInfo handed to a part of a source: what the model remembers of it
Handed(to, g) == [to |-> to, t |-> g.t]

\* the loop over the effects in Source::gen: the value v so far, and the set
\* handed of the contexts handed out so far
RECURSIVE EffectsLoop(_, _, _, _)
EffectsLoop(effects, v, g, handed) ==
    IF effects = <<>> THEN [v |-> v, handed |-> handed]
    ELSE IF Contains(Head(effects).start, Head(effects).end, g.t)
    THEN EffectsLoop(
             Tail(effects),
             EffectTypeApply(Head(effects).ty, v,
                             GenInfoNew(g, Head(effects).start, Head(effects).end)),
             g,
             handed \cup {Handed("effect",
                                 GenInfoNew(g, Head(effects).start, Head(effects).end))})
    ELSE EffectsLoop(Tail(effects), v, g, handed)

\* Source::gen: Ok(v * self.volume.evaluate(Some(gi))?)
SourceGenVolume(fx, volume, g) ==
    IF ~volume.ok THEN [res |-> volume, handed |-> fx.handed \cup {Handed("volume", g)}]
    ELSE [res |-> EvOk(NumMul(fx.v, volume.v)),
          handed |-> fx.handed \cup {Handed("volume", g)}]

\* Source::gen after let mut v = self.ty.gen(gi)?
SourceGenWave(src, g, w) ==
    IF ~w.ok THEN [res |-> w, handed |-> {Handed("waveform", g)}]
    ELSE SourceGenVolume(EffectsLoop(src.effects, w.v, g, {Handed("waveform", g)}),
                         Evaluate(src.volume, g), g)

\* Source::gen
SourceGen(src, g) == SourceGenWave(src, g, SourceTypeGen(src.ty, g))

mix(v1, v2) == NumAdd(v1, v2)

\* get_sample: the loop over the sources from the k-th on, with the value mixed
\* so far; contributors is the set of the sources whose value was mixed in
RECURSIVE GetSampleLoop(_, _, _, _)
GetSampleMixed(sources, k, g, acc, v) ==
    IF ~v.res.ok
    THEN [res |-> v.res, contributors |-> acc.contributors,
          handed |-> acc.handed \cup v.handed]
    ELSE GetSampleLoop(sources, k + 1, g,
                       [mixed |-> mix(acc.mixed, v.res.v),
                        contributors |-> acc.contributors \cup {k},
                        handed |-> acc.handed \cup v.handed])

GetSampleLoop(sources, k, g, acc) ==
    IF k > Len(sources)
    THEN [res |-> EvOk(acc.mixed), contributors |-> acc.contributors,
          handed |-> acc.handed]
    ELSE IF \/ ~Has(sources[k].channels, g.channel)
            \/ ~Contains(sources[k].start, sources[k].end, g.t)
    THEN GetSampleLoop(sources, k + 1, g, acc)
    ELSE GetSampleMixed(sources, k, g, acc,
                        SourceGen(sources[k],
                                  GenInfoNew(g, sources[k].start, sources[k].end)))

\* get_sample
GetSample(s, g) ==
    GetSampleLoop(s.sources, 1, g,
                  [mixed |-> Int2Num(0), contributors |-> {}, handed |-> {}])

\* get_sample with the sources taken out of the Song it was given
SongEmptiedByGetSample(s, g) == [s EXCEPT !.sources = <<>>]

\* the Song get_sample(s, g) leaves behind: the function, and SourceType::gen,
\* EffectType::apply and Source::gen below it, hold the Song by &mut and assign
\* to none of its fields
SongAfterGetSample(s, g) == s

(***************************************************************************)
(* The PCM loop (src/pcm.rs)                                               *)
(***************************************************************************)
\* f64 as usize: toward zero, NaN and the negatives to 0 (the model keeps no
\* value beyond usize::MAX)
AsUsize(x) == IF IsRat(x) /\ x.n > 0 THEN Trunc(x) ELSE 0

\* i16::MAX and i16::MIN
I16Max == 32767
I16Min == -32768

\* f64 as i16: toward zero, saturating, NaN to 0
AsI16(x) ==
    IF IsInf(x) THEN (IF x.n > 0 THEN I16Max ELSE I16Min)
    ELSE IF ~IsRat(x) THEN 0
    ELSE IF Trunc(x) > I16Max THEN I16Max
    ELSE IF Trunc(x) < I16Min THEN I16Min
    ELSE Trunc(x)

\* i16::to_le_bytes
ToLeBytes(x) ==
    <<(IF x < 0 THEN x + 65536 ELSE x) % 256, (IF x < 0 THEN x + 65536 ELSE x) \div 256>>

\* data_start with offs = i * bytes_per_sample
DataStartWithoutChannels(i, channel, channels, bytes_per_sample) ==
    i * bytes_per_sample + channel * bytes_per_sample

\* data_start = offs + channel * bytes_per_sample,
\* where offs = i * song.channels * bytes_per_sample
DataStart(i, channel, channels, bytes_per_sample) ==
    i * channels * bytes_per_sample + channel * bytes_per_sample

\* let samples = (samplerate as f64 * song.length_s) as usize
Samples(samplerate, length_s) == AsUsize(NumMul(Int2Num(samplerate), length_s))

\* the GenInfo of the sample i on a channel
SampleGenInfo(s, samplerate, i, channel) ==
    SomeGi(channel, NumDiv(NumDiv(Int2Num(i), Int2Num(samplerate)), s.length_s))

\* data[data_pos].copy_from_slice(&bytes), with the writer w of the bytes
\* remembered: on of data is the bytes, and the writers of each of them
CopyFromSlice(on, data_start, bytes, w) ==
    [b \in 1 .. Len(on) |->
        IF b > data_start /\ b <= data_start + Len(bytes)
        THEN [byte |-> bytes[b - data_start], writers |-> Append(on[b].writers, w)]
        ELSE on[b]]

(***************************************************************************)
(* Bounds of the model and the texts it is run on                          *)
(***************************************************************************)
\* integer literals of the expression texts are 0 .. MaxLit, and 8 and 10
MaxLit == 4
\* channel indices of a GenInfo are 0 .. MaxChannel
MaxChannel == 1
\* the times of a GenInfo are the multiples of 1/TimeSteps in [0, 1]
TimeSteps == 2

Lits == (0 .. MaxLit) \cup {8, 10}
\* literals of the texts that hold the operator ^
PowLits == {2, 3}
OpChars == {"+", "-", "*", "/", "%", "^"}

DigitChar(d) ==
    CASE d = 0 -> "0" [] d = 1 -> "1" [] d = 2 -> "2" [] d = 3 -> "3" [] d = 4 -> "4"
      [] d = 5 -> "5" [] d = 6 -> "6" [] d = 7 -> "7" [] d = 8 -> "8" [] d = 9 -> "9"

\* the decimal text of a natural number
RECURSIVE Render(_)
Render(n) == IF n < 10 THEN <<DigitChar(n)>> ELSE Render(n \div 10) \o <<DigitChar(n % 10)>>

\* the names an expression text refers to
NamePi == <<"p", "i">>
NameE == <<"e">>
NameT == <<"t">>
NameChannel == <<"c", "h", "a", "n", "n", "e", "l">>
NameCh == <<"c", "h">>
UnknownNames == {<<"x">>, <<"f", "o", "o">>, <<"T">>}
VarNames == {NamePi, NameE, NameT, NameChannel, NameCh} \cup UnknownNames

\* the cases of SpecExpr: a op b, a op1 b op2 c, and texts that hold a name
BinCases ==
    {[kind |-> "bin", a |-> a, op1 |-> o, b |-> b] :
        a \in Lits, o \in OpChars \ {"^"}, b \in Lits}
    \cup {[kind |-> "bin", a |-> a, op1 |-> "^", b |-> b] : a \in Lits, b \in 0 .. MaxLit}

TernCases ==
    {[kind |-> "tern", a |-> a, op1 |-> o1, b |-> b, op2 |-> o2, c |-> c] :
        a \in Lits, o1 \in OpChars \ {"^"}, b \in Lits, o2 \in OpChars \ {"^"}, c \in Lits}
    \cup {x \in [kind : {"tern"}, a : PowLits, op1 : OpChars, b : PowLits,
                 op2 : OpChars, c : PowLits] :
            /\ "^" \in {x.op1, x.op2}
            /\ ~(x.op1 = "^" /\ x.op2 = "^" /\ x.a = 3 /\ x.b = 3 /\ x.c = 3)}

VarCases ==
    {[kind |-> "var", name |-> n] : n \in VarNames}
    \cup {[kind |-> "varop", name |-> n, op1 |-> o, b |-> b, side |-> sd] :
            n \in VarNames, o \in {"+", "*", "-"}, b \in {0, 2}, sd \in {"left", "right"}}

\* texts with parentheses: matched, closed without an opener, opened and never
\* closed
MismatchedShapes == {"close", "sum close", "group close", "open", "open sum", "open group"}
ParenShapes == {"group", "group sum"} \cup MismatchedShapes
ParenCases ==
    {[kind |-> "paren", shape |-> sh, a |-> a, b |-> b] :
        sh \in ParenShapes, a \in Lits, b \in Lits}

ParenText(x) ==
    CASE x.shape = "group" -> <<"(", " ">> \o Render(x.a) \o <<" ", ")">>
      [] x.shape = "group sum" ->
            <<"(", " ">> \o Render(x.a) \o <<" ", "+", " ">> \o Render(x.b) \o <<" ", ")">>
      [] x.shape = "close" -> Render(x.a) \o <<" ", ")">>
      [] x.shape = "sum close" ->
            Render(x.a) \o <<" ", "+", " ">> \o Render(x.b) \o <<" ", ")">>
      [] x.shape = "group close" -> <<"(", " ">> \o Render(x.a) \o <<" ", ")", " ", ")">>
      [] x.shape = "open" -> <<"(", " ">> \o Render(x.a)
      [] x.shape = "open sum" ->
            <<"(", " ">> \o Render(x.a) \o <<" ", "+", " ">> \o Render(x.b)
      [] x.shape = "open group" -> <<"(", " ", "(", " ">> \o Render(x.a) \o <<" ", ")">>

\* texts with a function call: f(a), f(a op1 b), f(a) op2 c, f(a op1 b) op2 c;
\* "" stands for an operator with its operand left out
FuncNames == {<<"a", "b", "s">>, <<"s", "i", "n">>, <<"s", "q", "r", "t">>, <<"f", "l", "o", "o", "r">>}
CallCases ==
    {[kind |-> "call", f |-> f, a |-> a, op1 |-> o1, b |-> b, op2 |-> o2, c |-> c] :
        f \in FuncNames, a \in 0 .. MaxLit, o1 \in {"", "+", "-"}, b \in 0 .. MaxLit,
        o2 \in {"", "+", "-", "*"}, c \in 0 .. MaxLit}

CallText(x) ==
    x.f \o <<"(">> \o Render(x.a)
    \o (IF x.op1 = "" THEN <<>> ELSE <<" ", x.op1, " ">> \o Render(x.b))
    \o <<")">>
    \o (IF x.op2 = "" THEN <<>> ELSE <<" ", x.op2, " ">> \o Render(x.c))

\* texts name(arg) for every function name of the language
AllFuncNames ==
    {<<"s", "i", "n">>, <<"c", "o", "s">>, <<"t", "a", "n">>, <<"l", "n">>, <<"l", "g">>,
     <<"l", "o", "g", "1", "0">>, <<"l", "o", "g", "2">>, <<"s", "q", "r", "t">>,
     <<"a", "b", "s">>, <<"r", "o", "u", "n", "d">>, <<"f", "l", "o", "o", "r">>,
     <<"c", "e", "i", "l">>, <<"r", "a", "d">>, <<"d", "e", "g">>}
NamedCallCases ==
    {[kind |-> "named call", f |-> f, a |-> a] : f \in AllFuncNames, a \in Lits \cup {100}}
NamedCallText(x) == x.f \o <<"(">> \o Render(x.a) \o <<")">>

ExprText(x) ==
    CASE x.kind = "bin" -> Render(x.a) \o <<" ", x.op1, " ">> \o Render(x.b)
      [] x.kind = "tern" ->
            Render(x.a) \o <<" ", x.op1, " ">> \o Render(x.b)
                \o <<" ", x.op2, " ">> \o Render(x.c)
      [] x.kind = "var" -> x.name
      [] x.kind = "varop" ->
            IF x.side = "left" THEN x.name \o <<" ", x.op1, " ">> \o Render(x.b)
            ELSE Render(x.b) \o <<" ", x.op1, " ">> \o x.name
      [] x.kind = "paren" -> ParenText(x)
      [] x.kind = "call" -> CallText(x)
      [] x.kind = "named call" -> NamedCallText(x)

GenInfos ==
    {NoGi} \cup {SomeGi(c, Rat(k, TimeSteps)) : c \in 0 .. MaxChannel, k \in 0 .. TimeSteps}

\* the value of a variable that a run does not use
Idle == [tag |-> "Idle"]

(***************************************************************************)
(* SpecExpr: an expression text is parsed by Parser::parse_expression (with *)
(* the terminate closure of parse_vol) and the tree is evaluated            *)
(***************************************************************************)
InitExpr ==
    /\ input \in BinCases \cup TernCases \cup VarCases \cup ParenCases \cup CallCases
                 \cup NamedCallCases
    /\ text = ExprText(input)
    /\ gi \in IF input.kind \in {"var", "varop"} THEN GenInfos ELSE {NoGi}
    /\ pc = "start"
    /\ expr = Idle
    /\ val = Idle
    /\ songRes = Idle
    /\ song = Idle
    /\ gen = Idle
    /\ tokenizer = Idle
    /\ token = Idle

\* Parser::new(Tokenizer::new(StringSource::new(_, text))).parse_expression(..)
ParseExpr ==
    /\ pc = "start"
    /\ expr' = ParseExpression(NewParser(text), "no")
    /\ pc' = "parsed"
    /\ UNCHANGED <<input, text, gi, val, songRes, song, gen, tokenizer, token>>

\* expr.evaluate(gi)
EvaluateExpr ==
    /\ pc = "parsed"
    /\ expr.tag = "Some"
    /\ val' = Evaluate(expr.v, gi)
    /\ pc' = "evaluated"
    /\ UNCHANGED <<input, text, gi, expr, songRes, song, gen, tokenizer, token>>

NextExpr == ParseExpr \/ EvaluateExpr

SpecExpr == InitExpr /\ [][NextExpr]_vars

(***************************************************************************)
(* Claims about expressions (SpecExpr)                                     *)
(***************************************************************************)
\* the arithmetic an operator character stands for
RefApply(o, x, y) ==
    CASE o = "+" -> NumAdd(x, y)
      [] o = "-" -> NumSub(x, y)
      [] o = "*" -> NumMul(x, y)
      [] o = "/" -> NumDiv(x, y)
      [] o = "%" -> NumMod(x, y)
      [] o = "^" -> NumPow(x, y)

\* the precedence the language gives an operator character
RefPrec(o) == IF o \in {"+", "-"} THEN 1 ELSE IF o = "^" THEN 3 ELSE 2

\* (a op1 b) op2 c and a op1 (b op2 c)
GroupLeft(x) ==
    RefApply(x.op2, RefApply(x.op1, Int2Num(x.a), Int2Num(x.b)), Int2Num(x.c))
GroupRight(x) ==
    RefApply(x.op1, Int2Num(x.a), RefApply(x.op2, Int2Num(x.b), Int2Num(x.c)))

\* the run has parsed and evaluated its text, with value v
EvaluatesTo(v) == pc = "evaluated" /\ val.ok /\ val.v = v
\* the run is over: the parse failed, or the tree was evaluated
ExprRunOver == pc = "evaluated" \/ (pc = "parsed" /\ expr.tag # "Some")

\* C1: in a op1 b op2 c over integer literals the operator of higher precedence
\* binds tighter, whichever comes first: 2 + 3 * 4 is 14 and 2 * 3 + 4 is 10.
\* (Stated over the texts without "/", whose tree node C3 is about.)
C1_HigherPrecedenceBindsTighter ==
    (/\ ExprRunOver
     /\ input.kind = "tern"
     /\ "/" \notin {input.op1, input.op2}
     /\ RefPrec(input.op1) # RefPrec(input.op2))
    => EvaluatesTo(IF RefPrec(input.op2) > RefPrec(input.op1)
                   THEN GroupRight(input) ELSE GroupLeft(input))

\* C2: operators of equal precedence among + - * / % group left to right
\* (10 - 3 - 2 is 5), and ^ groups right to left (2 ^ 3 ^ 2 is 512).
\* (Stated over the texts without "/", whose tree node C3 is about.)
C2_EqualPrecedenceAssociativity ==
    (/\ ExprRunOver
     /\ input.kind = "tern"
     /\ "/" \notin {input.op1, input.op2}
     /\ RefPrec(input.op1) = RefPrec(input.op2))
    => EvaluatesTo(IF input.op1 = "^" THEN GroupRight(input) ELSE GroupLeft(input))

\* C3: for literals a, b with b not zero, a / b parses to a Div node whose left
\* operand (the dividend) is a, and evaluates to the quotient of a by b.
C3_SlashIsDivision ==
    (ExprRunOver /\ input.kind = "bin" /\ input.op1 = "/" /\ input.b # 0)
    => /\ expr.tag = "Some"
       /\ expr.v.op = "Div"
       /\ expr.v.f1 = Lit(Int2Num(input.a))
       /\ EvaluatesTo(NumDiv(Int2Num(input.a), Int2Num(input.b)))

\* C4: for a op b with op one of - % ^, the tree built from the end of the
\* output queue has a as the left operand and b as the right one, and evaluates
\* to a op b: 10 - 3 is 7, not -7.
C4_OperandOrder ==
    (ExprRunOver /\ input.kind = "bin" /\ input.op1 \in {"-", "%", "^"})
    => /\ expr.tag = "Some"
       /\ expr.v.f1 = Lit(Int2Num(input.a))
       /\ expr.v.f0 = Lit(Int2Num(input.b))
       /\ EvaluatesTo(RefApply(input.op1, Int2Num(input.a), Int2Num(input.b)))

\* 10 - 3 has been evaluated to 7
C4_Witness ==
    /\ input = [kind |-> "bin", a |-> 10, op1 |-> "-", b |-> 3]
    /\ EvaluatesTo(Int2Num(7))

\* what C5 says of a name evaluated alone under the context g: "" for success
NameFailure(name, g) ==
    IF name \in {NamePi, NameE} THEN ""
    ELSE IF name \in {NameT, NameChannel, NameCh}
         THEN (IF g.some THEN "" ELSE "NoGenInfo")
    ELSE "UnknownVar"

\* C5: pi and e evaluate with or without a context; t yields the context's t
\* and channel/ch its channel when a context is given, and they fail with
\* NoGenInfo when none is; any other name fails with UnknownVar carrying the
\* name; an expression fails whenever an evaluated sub-expression fails.
C5_VariableEvaluation ==
    (ExprRunOver /\ input.kind \in {"var", "varop"})
    => /\ pc = "evaluated"
       /\ val.ok = (NameFailure(input.name, gi) = "")
       /\ val.err = NameFailure(input.name, gi)
       /\ val.err = "UnknownVar" => val.name = input.name
       /\ (input.kind = "var" /\ val.ok) =>
            val.v = CASE input.name = NamePi -> ConstPi
                      [] input.name = NameE -> ConstE
                      [] input.name = NameT -> gi.t
                      [] OTHER -> Int2Num(gi.channel)

\* t has been evaluated without a context, and 2 - channel with one
C5_Witness ==
    /\ pc = "evaluated"
    /\ \/ input.kind = "var" /\ input.name = NameT /\ ~gi.some /\ val.err = "NoGenInfo"
       \/ input.kind = "varop" /\ input.name = NameChannel /\ gi.some /\ val.ok

(***************************************************************************)
(* SpecSong: a song text is parsed by get_song                             *)
(***************************************************************************)
\* the whole part of a number written in a timeframe is 0 .. MaxTime
MaxTime == 2
\* the song lengths (in seconds) of the texts
SongLengths == {1, 2}

\* the numbers written in a timeframe: w, or 0.5
TimeNums == {[w |-> w, half |-> FALSE] : w \in 0 .. MaxTime} \cup {[w |-> 0, half |-> TRUE]}
TimeNumText(x) == Render(x.w) \o (IF x.half THEN <<".", "5">> ELSE <<>>)
UnitNames == {<<"h">>, <<"m">>, <<"s">>, <<"m", "s">>, <<"n", "s">>}

\* a bound of a timeframe: absent, or a number with a unit name (<<>>: no unit)
Absent == [abs |-> TRUE, num |-> [w |-> 0, half |-> FALSE], unit |-> <<>>]
Written(x, u) == [abs |-> FALSE, num |-> x, unit |-> u]
\* (0.5 ns is left out: a billionth of a half, halved again, is beyond the
\* integers the numbers are kept in)
TimeBounds ==
    {Absent}
    \cup {Written(x, u) : x \in TimeNums, u \in (UnitNames \ {<<"n", "s">>}) \cup {<<>>}}
    \cup {Written(x, <<"n", "s">>) : x \in {y \in TimeNums : ~y.half}}
BoundText(b) ==
    IF b.abs THEN <<>>
    ELSE TimeNumText(b.num) \o (IF b.unit = <<>> THEN <<>> ELSE <<" ">> \o b.unit)
TimeframeText(start, end) == BoundText(start) \o <<":">> \o BoundText(end)

\* the timeframes of the sources that own an effect
SourceFrames ==
    {<<Absent, Absent>>,
     <<Written([w |-> 0, half |-> TRUE], <<>>), Absent>>,
     <<Absent, Written([w |-> 0, half |-> TRUE], <<>>)>>,
     <<Written([w |-> 1, half |-> FALSE], <<"s">>), Absent>>}

\* what stands where the name is expected: `"x"`, nothing, or another token
NamePieces ==
    {<<"\"", "x", "\"">>,
     <<>>,
     <<"1">>,
     <<"x">>,
     <<"1", "s">>,
     <<"'", "a", "'">>,
     <<"(">>}

\* what stands where the length is expected: `1 s`, nothing, a number with
\* no `s`, or parentheses around the number, matched or not
LengthPieces ==
    {<<"1", " ", "s">>,
     <<>>,
     <<"1">>,
     <<"(", " ", "1", " ", ")", " ", "s">>,
     <<"1", " ", ")", " ", "s">>,
     <<"(", " ", "1", " ", "s">>}

\* what stands where the channel clause is expected
ChannelPieces ==
    {<<"o", "n", " ", "1">>,
     <<>>,
     <<"o", "n">>,
     <<"1">>,
     <<"o", "n", " ", "*">>}

\* a whole source declaration
SourceWhole ==
    <<"s", "a", "w", "(", "1", " ", "h", "z", ",", " ", ":", ")", " ", "o", "n", " ", "*", " ", "@", " ", "1">>

\* a source declaration that ends after its waveform identifier and before its
\* volume is written
SourceStarts ==
    {<<"s", "a", "w">>,
     <<"s", "a", "w", "(">>,
     <<"s", "a", "w", "(", "1", " ", "h", "z">>,
     <<"s", "a", "w", "(", "1", " ", "h", "z", ",">>,
     <<"s", "a", "w", "(", "1", " ", "h", "z", ",", " ", ":">>,
     <<"s", "a", "w", "(", "1", " ", "h", "z", ",", " ", ":", ")">>,
     <<"s", "a", "w", "(", "1", " ", "h", "z", ",", " ", ":", ")", " ", "o", "n">>,
     <<"s", "a", "w", "(", "1", " ", "h", "z", ",", " ", ":", ")", " ", "o", "n", " ", "*">>,
     <<"s", "a", "w", "(", "1", " ", "h", "z", ",", " ", ":", ")", " ", "o", "n", " ", "*", " ", "@">>}

\* the effect blocks after a whole source declaration: wobble is no effect name
EffectBlocks ==
    {<<"{", " ", "f", "a", "d", "e", "_", "i", "n", " ", ":", " ", "}">>,
     <<"{", " ", "w", "o", "b", "b", "l", "e", " ", ":", " ", "}">>,
     <<"{", " ", "f", "a", "d", "e", "_", "i", "n", " ", ":", " ", "w", "o", "b", "b", "l", "e", " ", ":", " ", "}">>,
     <<"{", " ", "w", "o", "b", "b", "l", "e", " ", ":", " ", "f", "a", "d", "e", "_", "i", "n", " ", ":", " ", "}">>,
     <<"{", " ", "}">>}

\* the pieces of a text, each one followed by a space when it is written
SpaceAfter(piece) == IF piece = <<>> THEN <<>> ELSE piece \o <<" ">>
PiecesText(x) ==
    SpaceAfter(x.name) \o SpaceAfter(x.length) \o SpaceAfter(x.chan)
    \o SpaceAfter(x.source) \o x.effects

PiecesCases ==
    {[kind |-> "pieces", name |-> n, length |-> l, chan |-> c, source |-> s,
      effects |-> <<>>] :
        n \in NamePieces, l \in LengthPieces, c \in ChannelPieces,
        s \in {<<>>, SourceWhole} \cup SourceStarts}
    \cup {[kind |-> "pieces", name |-> n, length |-> l, chan |-> c,
           source |-> SourceWhole, effects |-> e] :
            n \in NamePieces, l \in LengthPieces, c \in ChannelPieces,
            e \in EffectBlocks}

\* the header every text of the families below starts with: "x" 1 s on 1
HeaderText ==
    <<"\"", "x", "\"", " ", "1", " ", "s", " ", "o", "n", " ", "1">>

\* source declarations with no effect block, one after the other: each one is
\* a waveform name, a channel selector ("*" or a channel index) and a volume
Waveforms == {<<"s", "a", "w">>, <<"s", "i", "n">>, <<"t", "r", "i">>}
Declarations ==
    [wave : Waveforms, chan : {"*", "0"}, vol : {1, 2}]
DeclarationText(d) ==
    d.wave \o <<"(", "1", " ", "h", "z", ",", " ", ":", ")", " ", "o", "n", " ", d.chan, " ", "@", " ">>
    \o Render(d.vol)
SourcesCases ==
    {[kind |-> "sources", decls |-> <<a, b>>] : a \in Declarations, b \in Declarations}
    \cup {[kind |-> "sources",
           decls |-> <<[wave |-> a, chan |-> "*", vol |-> 1],
                       [wave |-> b, chan |-> "*", vol |-> 1],
                       [wave |-> c, chan |-> "*", vol |-> 1]>>] :
            a \in Waveforms, b \in Waveforms, c \in Waveforms}
RECURSIVE DeclarationsText(_)
DeclarationsText(ds) ==
    IF ds = <<>> THEN <<>>
    ELSE <<" ">> \o DeclarationText(Head(ds)) \o DeclarationsText(Tail(ds))

\* one source whose frequency is written with no hz: w(f, start:end) on * @ 1
PlainFrames ==
    {<<Absent, Absent>>,
     <<Written([w |-> 0, half |-> FALSE], <<>>), Written([w |-> 1, half |-> FALSE], <<>>)>>,
     <<Written([w |-> 0, half |-> TRUE], <<>>), Absent>>,
     <<Absent, Written([w |-> 0, half |-> TRUE], <<>>)>>}
PlainFreqCases ==
    {[kind |-> "plain freq", wave |-> w, freq |-> f, start |-> fr[1], end |-> fr[2]] :
        w \in Waveforms, f \in {1, 2, 440}, fr \in PlainFrames}
PlainFreqText(x) ==
    HeaderText \o <<" ">> \o x.wave \o <<"(">> \o Render(x.freq) \o <<",", " ">>
    \o TimeframeText(x.start, x.end) \o <<")", " ", "o", "n", " ", "*", " ", "@", " ", "1">>

\* a song whose length is written as a name: "x" <name> s on 1, alone or
\* followed by a source
LengthNameCases ==
    {[kind |-> "length name", name |-> n, source |-> src] :
        n \in VarNames, src \in {<<>>, SourceWhole}}
LengthNameText(x) ==
    <<"\"", "x", "\"", " ">> \o x.name \o <<" ", "s", " ", "o", "n", " ", "1">>
    \o (IF x.source = <<>> THEN <<>> ELSE <<" ">> \o x.source)

\* the cases of SpecSong: one source with a timeframe, one source with a
\* timeframe and one effect with a timeframe, the example text, and the texts
\* put together from pieces
SongCases ==
    {[kind |-> "source", len |-> l, start |-> a, end |-> b] :
        l \in SongLengths, a \in TimeBounds, b \in TimeBounds}
    \cup {[kind |-> "effect", len |-> l, start |-> f[1], end |-> f[2],
           estart |-> a, eend |-> b] :
            l \in SongLengths, f \in SourceFrames, a \in TimeBounds, b \in TimeBounds}
    \cup {[kind |-> "example"]}
    \cup PiecesCases
    \cup SourcesCases
    \cup PlainFreqCases
    \cup LengthNameCases

ExampleText ==
    <<"\"", "t", "e", "s", "t", "\"", " ", "1", "s", " ", "o", "n", " ", "1", " ", "s", "i", "n", "(", "4", "4", "0", "h", "z", ",", " ", "0", ":", "1", ")", " ", "o", "n", " ", "*", " ", "@", " ", "1">>

SongText(x) ==
    IF x.kind = "example" THEN ExampleText
    ELSE IF x.kind = "pieces" THEN PiecesText(x)
    ELSE IF x.kind = "sources" THEN HeaderText \o DeclarationsText(x.decls)
    ELSE IF x.kind = "plain freq" THEN PlainFreqText(x)
    ELSE IF x.kind = "length name" THEN LengthNameText(x)
    ELSE <<"\"", "x", "\"", " ">> \o Render(x.len)
         \o <<" ", "s", " ", "o", "n", " ", "1", " ", "s", "a", "w", "(", "1", " ", "h", "z", ",", " ">>
         \o TimeframeText(x.start, x.end) \o <<")", " ", "o", "n", " ", "*", " ", "@", " ", "1">>
         \o (IF x.kind = "effect"
             THEN <<" ", "{", " ", "f", "a", "d", "e", "_", "i", "n", " ">>
                  \o TimeframeText(x.estart, x.eend) \o <<" ", "}">>
             ELSE <<>>)

InitSong ==
    /\ input \in SongCases
    /\ text = SongText(input)
    /\ gi = NoGi
    /\ pc = "start"
    /\ expr = Idle
    /\ val = Idle
    /\ songRes = Idle
    /\ song = Idle
    /\ gen = Idle
    /\ tokenizer = Idle
    /\ token = Idle

\* get_song(_, text)
ParseSongText ==
    /\ pc = "start"
    /\ songRes' = GetSong(text)
    /\ pc' = "parsed"
    /\ UNCHANGED <<input, text, gi, expr, val, song, gen, tokenizer, token>>

NextSong == ParseSongText

SpecSong == InitSong /\ [][NextSong]_vars

(***************************************************************************)
(* Claims about the song parser (SpecSong)                                 *)
(***************************************************************************)
\* C6: parsing the text "test" 1s on 1 sin(440hz, 0:1) on * @ 1 succeeds and
\* yields a Song with name "test", length 1 second, 1 channel and exactly one
\* source: a Sine of frequency 440, start 0, end 1, selector All, volume 1 and
\* no effects.
C6_ExampleSongParses ==
    (pc = "parsed" /\ input.kind = "example") =>
        /\ songRes.tag = "Ok"
        /\ songRes.song =
              [name |-> <<"t", "e", "s", "t">>, length_s |-> Int2Num(1), channels |-> 1,
               sources |->
                  <<[ty |-> [ty |-> "Sine", freq |-> Lit(Int2Num(440)), phase |-> ExprZero],
                     start |-> Int2Num(0), end |-> Int2Num(1), channels |-> ChannelsAll,
                     volume |-> Lit(Int2Num(1)), effects |-> <<>>]>>]

\* the seconds a unit name stands for
RefSeconds(u) ==
    CASE u = <<"h">> -> Int2Num(3600)
      [] u = <<"m">> -> Int2Num(60)
      [] u = <<"s">> -> Int2Num(1)
      [] u = <<"m", "s">> -> Rat(1, 1000)
      [] u = <<"n", "s">> -> Rat(1, 1000000000)

\* the number a timeframe number stands for
RefTimeNum(x) == IF x.half THEN Rat(2 * x.w + 1, 2) ELSE Int2Num(x.w)

\* the bound the language gives a written bound b in a scope of L seconds
RefBound(b, dflt, L) ==
    IF b.abs THEN Int2Num(dflt)
    ELSE IF b.unit = <<>> THEN RefTimeNum(b.num)
    ELSE NumDiv(NumMul(RefTimeNum(b.num), RefSeconds(b.unit)), L)

\* the only source of the parsed song, and its only effect
TheSource == songRes.song.sources[1]
TheEffect == TheSource.effects[1]
\* the length in seconds of the scope of TheSource's effects
EffectScope == NumMul(NumSub(TheSource.end, TheSource.start), Int2Num(input.len))

\* C7: parse_timeframe over a scope of L seconds returns (start, end) where an
\* absent start is 0, an absent end is 1, a bare number n is n, and a number n
\* with a unit u of h, m, s, ms, ns is n * seconds(u) / L; L is the song length
\* for a source and (end - start) * song length of the owning source for an
\* effect.
C7_Timeframe ==
    (pc = "parsed" /\ input.kind \in {"source", "effect"}) =>
        /\ songRes.tag = "Ok"
        /\ Len(songRes.song.sources) = 1
        /\ TheSource.start = RefBound(input.start, 0, Int2Num(input.len))
        /\ TheSource.end = RefBound(input.end, 1, Int2Num(input.len))
        /\ input.kind = "source" => TheSource.effects = <<>>
        /\ input.kind = "effect" =>
              /\ Len(TheSource.effects) = 1
              /\ TheEffect.start = RefBound(input.estart, 0, EffectScope)
              /\ TheEffect.end = RefBound(input.eend, 1, EffectScope)

\* C7 happens: in a 2 second song a source over "0.5:" owns an effect over
\* "1 ms:", whose scope is 1 second long; the effect spans [1/1000, 1]
C7_Witness ==
    /\ pc = "parsed"
    /\ input.kind = "effect"
    /\ input.len = 2
    /\ input.start = Written([w |-> 0, half |-> TRUE], <<>>)
    /\ input.end = Absent
    /\ input.estart = Written([w |-> 1, half |-> FALSE], <<"m", "s">>)
    /\ input.eend = Absent
    /\ songRes.tag = "Ok"
    /\ TheSource.start = Rat(1, 2)
    /\ TheSource.end = Int2Num(1)
    /\ TheEffect.start = Rat(1, 1000)
    /\ TheEffect.end = Int2Num(1)

(***************************************************************************)
(* SpecGen: generate_pcm over a Song, one step per sample of a channel     *)
(***************************************************************************)
\* the sample rates are 1 .. MaxRate
MaxRate == 2
\* the song lengths are the multiples of half a second up to MaxHalfSeconds
MaxHalfSeconds == 3
\* the values asked of bytes_per_sample
BytesPerSample == 1 .. 3

\* the windows [start, end] of the sources and effects: the multiples of
\* 1/TimeSteps in [0, 1] with start <= end, and one with start > end
Windows ==
    {<<Rat(a, TimeSteps), Rat(b, TimeSteps)>> : a \in 0 .. TimeSteps, b \in 0 .. TimeSteps}
        \ {w \in {<<Rat(a, TimeSteps), Rat(b, TimeSteps)>> :
                      a \in 0 .. TimeSteps, b \in 0 .. TimeSteps} : NumLt(w[2], w[1])}
FullWindow == <<Int2Num(0), Int2Num(1)>>
BackwardWindow == <<Int2Num(1), Int2Num(0)>>

VarT == [op |-> "VarOrConst", name |-> NameT]
VarUnknown == [op |-> "VarOrConst", name |-> <<"x">>]

\* a gen::Source of frequency 1 and phase 0
MkSource(ty, w, channels, volume, effects) ==
    [ty |-> [freq |-> Lit(Int2Num(1)), phase |-> ExprZero, ty |-> ty],
     start |-> w[1], end |-> w[2], channels |-> channels,
     volume |-> volume, effects |-> effects]

MkSong(channels, length_s, sources) ==
    [name |-> <<"x">>, channels |-> channels, length_s |-> length_s, sources |-> sources]

EffectChoices ==
    {<<>>} \cup {<<[ty |-> ty, start |-> w[1], end |-> w[2]]>> :
                    ty \in {"FadeIn", "FadeOut"}, w \in Windows}

\* two effects, one after the other
EffectWindows == {FullWindow, <<Int2Num(0), Rat(1, 2)>>, <<Rat(1, 2), Int2Num(1)>>}
EffectPairs ==
    {<<[ty |-> t1, start |-> w1[1], end |-> w1[2]],
       [ty |-> t2, start |-> w2[1], end |-> w2[2]]>> :
        t1 \in {"FadeIn", "FadeOut"}, w1 \in EffectWindows,
        t2 \in {"FadeIn", "FadeOut"}, w2 \in EffectWindows}

Selectors == {ChannelsAll} \cup {ChannelsOne(k) : k \in 0 .. MaxChannel + 1}

\* the source src with an unknown variable as one of its expressions
WithUnknown(src, field) ==
    CASE field = "freq" -> [src EXCEPT !.ty.freq = VarUnknown]
      [] field = "phase" -> [src EXCEPT !.ty.phase = VarUnknown]
      [] field = "volume" -> [src EXCEPT !.volume = VarUnknown]
      [] OTHER -> src

\* what follows the first source of a "mix" case
SecondSources ==
    {<<>>,
     <<MkSource("Square", FullWindow, ChannelsAll, Lit(Int2Num(1)), <<>>)>>,
     <<MkSource("Triangle", <<Rat(1, 2), Int2Num(1)>>, ChannelsAll, VarT,
                <<[ty |-> "FadeOut", start |-> Int2Num(0), end |-> Int2Num(1)]>>)>>}

\* the cases of SpecGen.  "layout": the sizes of the song and of the request
\* vary; "window": the windows of one source and of its effect vary;
\* "channels": the selectors of two sources vary; "failing": the second of two
\* sources may hold an unknown variable, and its selector and window vary;
\* "mix": a source with two effects, alone or with a second source.
GenCases ==
    {[kind |-> "layout", samplerate |-> r, bytes_per_sample |-> b,
      song |-> MkSong(c, Rat(h, 2), srcs)] :
        r \in 1 .. MaxRate, b \in BytesPerSample, c \in 0 .. MaxChannel + 1,
        h \in 0 .. MaxHalfSeconds,
        srcs \in {<<>>,
                  <<MkSource("Saw", FullWindow, ChannelsAll, Lit(Int2Num(1)), <<>>)>>,
                  <<MkSource("Saw", FullWindow, ChannelsAll, VarUnknown, <<>>)>>}}
    \cup
    {[kind |-> "window", samplerate |-> r, bytes_per_sample |-> 2,
      song |-> MkSong(1, Int2Num(l), <<MkSource(ty, w, ChannelsAll, v, fx)>>)] :
        r \in 1 .. MaxRate, l \in 1 .. 2, ty \in {"Saw", "Square", "Triangle"},
        w \in Windows \cup {BackwardWindow}, v \in {Lit(Int2Num(1)), VarT},
        fx \in EffectChoices}
    \cup
    {[kind |-> "channels", samplerate |-> MaxRate, bytes_per_sample |-> 2,
      song |-> MkSong(c, Int2Num(1),
                      <<MkSource("Saw", FullWindow, s1, Lit(Int2Num(1)), <<>>),
                        MkSource("Square", w, s2, Lit(Int2Num(1)), <<>>)>>)] :
        c \in 1 .. MaxChannel + 1, s1 \in Selectors, s2 \in Selectors,
        w \in {FullWindow, <<Int2Num(0), Rat(1, 2)>>}}
    \cup
    {[kind |-> "failing", samplerate |-> MaxRate, bytes_per_sample |-> b,
      song |-> MkSong(c, Int2Num(1),
                      <<MkSource("Saw", FullWindow, ChannelsAll, Lit(Int2Num(1)), <<>>),
                        WithUnknown(MkSource("Square", w, s2, Lit(Int2Num(1)), <<>>), f)>>)] :
        b \in {1, 2}, c \in 1 .. MaxChannel + 1, s2 \in Selectors,
        w \in {FullWindow, <<Rat(1, 2), Int2Num(1)>>, <<Int2Num(1), Int2Num(1)>>,
               BackwardWindow},
        f \in {"freq", "phase", "volume", "none"}}
    \cup
    {[kind |-> "mix", samplerate |-> MaxRate, bytes_per_sample |-> 2,
      song |-> MkSong(1, Int2Num(1),
                      <<MkSource(ty, FullWindow, ChannelsAll, v, fx)>> \o others)] :
        ty \in {"Saw", "Square"}, v \in {Lit(Int2Num(2)), VarT}, fx \in EffectPairs,
        others \in SecondSources}

InitGen ==
    /\ input \in GenCases
    /\ song = input.song
    /\ text = <<>>
    /\ gi = NoGi
    /\ pc = "start"
    /\ expr = Idle
    /\ val = Idle
    /\ songRes = Idle
    /\ gen = Idle
    /\ tokenizer = Idle
    /\ token = Idle

\* generate_pcm up to its loops: samples, and data = vec![0; ..]
StartGenerate ==
    /\ pc = "start"
    /\ gen' = [status |-> "running",
               samples |-> Samples(input.samplerate, song.length_s),
               data |-> [b \in 1 .. Samples(input.samplerate, song.length_s)
                                      * song.channels * input.bytes_per_sample |->
                            [byte |-> 0, writers |-> <<>>]],
               i |-> 0, channel |-> 0, contributors |-> {}, handed |-> {},
               last |-> [i |-> -1, channel |-> -1, res |-> EvOk(Int2Num(0))]]
    /\ pc' = "loop"
    /\ UNCHANGED <<input, text, gi, expr, val, songRes, song, tokenizer, token>>

\* the body of the inner loop after get_sample returned r: the ? on an Err, the
\* panic of copy_from_slice on slices of different lengths (or of the index
\* beyond data), or the write and the step to the next channel or sample
GenerateSampleGot(r, data_start) ==
    gen' =
        IF ~r.res.ok
        THEN [gen EXCEPT !.status = "err", !.handed = @ \cup r.handed,
                         !.last = [i |-> gen.i, channel |-> gen.channel, res |-> r.res]]
        ELSE IF \/ input.bytes_per_sample # Len(ToLeBytes(0))
                \/ data_start + input.bytes_per_sample > Len(gen.data)
        THEN [gen EXCEPT !.status = "panic", !.handed = @ \cup r.handed,
                         !.last = [i |-> gen.i, channel |-> gen.channel, res |-> r.res],
                         !.contributors = @ \cup
                            {[i |-> gen.i, channel |-> gen.channel, source |-> k] :
                                k \in r.contributors}]
        ELSE [gen EXCEPT
                !.data = CopyFromSlice(
                             @, data_start,
                             ToLeBytes(AsI16(NumMul(r.res.v, Int2Num(I16Max)))),
                             <<gen.i, gen.channel>>),
                !.handed = @ \cup r.handed,
                !.last = [i |-> gen.i, channel |-> gen.channel, res |-> r.res],
                !.contributors = @ \cup
                    {[i |-> gen.i, channel |-> gen.channel, source |-> k] :
                        k \in r.contributors},
                !.channel = IF gen.channel + 1 < song.channels THEN @ + 1 ELSE 0,
                !.i = IF gen.channel + 1 < song.channels THEN @ ELSE @ + 1]

\* one round of for channel in 0..song.channels, within for i in 0..samples
GenerateSample ==
    /\ pc = "loop"
    /\ gen.status = "running"
    /\ gen.i < gen.samples
    /\ gen.channel < song.channels
    /\ GenerateSampleGot(
           GetSample(song, SampleGenInfo(song, input.samplerate, gen.i, gen.channel)),
           DataStart(gen.i, gen.channel, song.channels, input.bytes_per_sample))
    /\ pc' = IF gen'.status = "running" THEN "loop" ELSE "done"
    /\ UNCHANGED <<input, text, gi, expr, val, songRes, song, tokenizer, token>>

\* Ok(data), after the loops
FinishGenerate ==
    /\ pc = "loop"
    /\ gen.status = "running"
    /\ gen.i >= gen.samples \/ song.channels = 0
    /\ gen' = [gen EXCEPT !.status = "ok"]
    /\ pc' = "done"
    /\ UNCHANGED <<input, text, gi, expr, val, songRes, song, tokenizer, token>>

NextGen == StartGenerate \/ GenerateSample \/ FinishGenerate

SpecGen == InitGen /\ [][NextGen]_vars

(***************************************************************************)
(* Claims about generation (SpecGen)                                       *)
(***************************************************************************)
\* floor(sample_rate x length_seconds) of the run
RefSampleCount == Floor(NumMul(Int2Num(input.samplerate), song.length_s))

\* C8: on success generate_pcm returns floor(sample_rate x length_seconds) x
\* channel_count samples of bytes_per_sample bytes each, frame-interleaved:
\* the sample (i, c) is the bytes from (i x channel_count + c) x
\* bytes_per_sample on, and every slot (i, c) is written exactly once.
C8_PcmLayout ==
    (pc = "done" /\ gen.status = "ok") =>
        /\ Len(gen.data) = RefSampleCount * song.channels * input.bytes_per_sample
        /\ \A i \in 0 .. RefSampleCount - 1 : \A c \in 0 .. song.channels - 1 :
              \A b \in 1 .. input.bytes_per_sample :
                 gen.data[(i * song.channels + c) * input.bytes_per_sample + b].writers
                     = <<<<i, c>>>>

\* C8 happens: a run over 2 channels and at least 2 samples ended in success,
\* and the bytes of sample 1 of channel 1 were written by that slot
C8_Witness ==
    /\ pc = "done"
    /\ gen.status = "ok"
    /\ song.channels = 2
    /\ gen.samples >= 2
    /\ song.sources # <<>>
    /\ Len(gen.data) = gen.samples * 4
    /\ gen.data[7].writers = <<<<1, 1>>>>
    /\ gen.data[8].writers = <<<<1, 1>>>>

\* the windows of the song's sources and effects have start <= end
WindowsOrdered ==
    \A k \in 1 .. Len(song.sources) :
        /\ NumLe(song.sources[k].start, song.sources[k].end)
        /\ \A j \in 1 .. Len(song.sources[k].effects) :
              NumLe(song.sources[k].effects[j].start, song.sources[k].effects[j].end)

\* C9: during generation every context handed to a source's waveform, to its
\* volume expression and to an effect has a defined t with 0 <= t <= 1, for
\* every song whose windows have start <= end, start = end included.
C9_ContextsNormalized ==
    (pc # "start" /\ WindowsOrdered) =>
        \A h \in gen.handed :
            /\ IsRat(h.t)
            /\ NumLe(Int2Num(0), h.t)
            /\ NumLe(h.t, Int2Num(1))

\* the samples get_sample has returned a value for
Computed ==
    {x \in (0 .. gen.samples) \X (0 .. song.channels - 1) :
        x[1] < gen.i \/ (x[1] = gen.i /\ x[2] < gen.channel)}

\* the time of sample i within the song
RefTime(i) == NumDiv(NumDiv(Int2Num(i), Int2Num(input.samplerate)), song.length_s)

\* C10: a source with selector One(k) contributes to no sample of a channel
\* other than k, and a source with selector All contributes to every channel,
\* at every sample index (of its window).
C10_ChannelSelector ==
    pc # "start" =>
        /\ \A x \in gen.contributors :
              song.sources[x.source].channels.k = "One" =>
                  song.sources[x.source].channels.n = x.channel
        /\ \A x \in Computed : \A k \in 1 .. Len(song.sources) :
              (/\ song.sources[k].channels.k = "All"
               /\ NumLe(song.sources[k].start, RefTime(x[1]))
               /\ NumLe(RefTime(x[1]), song.sources[k].end)) =>
                  [i |-> x[1], channel |-> x[2], source |-> k] \in gen.contributors

\* C10 happens: in a song of 2 channels whose first source is on 0 and whose
\* second is on *, sample 0 of channel 1 was mixed from the second source only
C10_Witness ==
    /\ pc = "done"
    /\ gen.status = "ok"
    /\ song.channels = 2
    /\ Len(song.sources) = 2
    /\ song.sources[1].channels = ChannelsOne(0)
    /\ song.sources[2].channels = ChannelsAll
    /\ [i |-> 0, channel |-> 0, source |-> 1] \in gen.contributors
    /\ [i |-> 0, channel |-> 1, source |-> 1] \notin gen.contributors
    /\ [i |-> 0, channel |-> 0, source |-> 2] \in gen.contributors
    /\ [i |-> 0, channel |-> 1, source |-> 2] \in gen.contributors

\* the source k is active for the sample i of the channel c: its selector
\* holds c and its window holds the time of i
RefActive(k, i, c) ==
    /\ \/ song.sources[k].channels.k = "All"
       \/ song.sources[k].channels.n = c
    /\ NumLe(song.sources[k].start, RefTime(i))
    /\ NumLe(RefTime(i), song.sources[k].end)

\* the frequency, phase or volume of the source k holds the unknown variable
RefFailing(k) ==
    VarUnknown \in {song.sources[k].ty.freq, song.sources[k].ty.phase,
                    song.sources[k].volume}

\* some source that is active for some sample of some channel fails
SomeActiveSourceFails ==
    \E k \in 1 .. Len(song.sources) :
        \E i \in 0 .. RefSampleCount - 1 : \E c \in 0 .. song.channels - 1 :
            RefActive(k, i, c) /\ RefFailing(k)

\* C11: generate_pcm returns an error (and no data) exactly when a source that
\* is active for some (sample index, channel) has a frequency, phase or volume
\* expression that fails; a failing expression of a source that is active for
\* no pair is never evaluated and does not fail the run.  (Stated over the
\* runs that return: Ok or Err.)
C11_ErrorIffActiveSourceFails ==
    (pc = "done" /\ gen.status \in {"ok", "err"}) =>
        (gen.status = "err" <=> SomeActiveSourceFails)

\* C11 happens: a run over a song whose second source fails but is active for
\* no pair ended in success with all its samples written
C11_Witness ==
    /\ pc = "done"
    /\ gen.status = "ok"
    /\ input.kind = "failing"
    /\ RefFailing(2)
    /\ gen.samples > 0
    /\ gen.i = gen.samples

\* C11 happens: a run ended in Err at a later pair than the first, the
\* failing source being active from the second half of the song on
C11_WitnessErr ==
    /\ pc = "done"
    /\ gen.status = "err"
    /\ input.kind = "failing"
    /\ gen.i > 0
    /\ SomeActiveSourceFails

(***************************************************************************)
(* SpecUnordered: get_sample is called once for every (sample index,       *)
(* channel) pair of a song, in any order                                    *)
(***************************************************************************)
InitUnordered ==
    /\ input \in {x \in GenCases : x.kind = "channels"}
    /\ song = input.song
    /\ text = <<>>
    /\ gi = NoGi
    /\ pc = "start"
    /\ expr = Idle
    /\ val = Idle
    /\ songRes = Idle
    /\ gen = Idle
    /\ tokenizer = Idle
    /\ token = Idle

\* let samples = ..; no pair is computed yet
StartUnordered ==
    /\ pc = "start"
    /\ gen' = [samples |-> Samples(input.samplerate, song.length_s), values |-> {}]
    /\ pc' = "pairs"
    /\ UNCHANGED <<input, text, gi, expr, val, songRes, song, tokenizer, token>>

\* gen::get_sample(song, gi) for a pair (i, channel) that was not computed yet
ComputePair ==
    /\ pc = "pairs"
    /\ \E i \in 0 .. gen.samples - 1 : \E channel \in 0 .. song.channels - 1 :
          /\ \A v \in gen.values : v.i # i \/ v.channel # channel
          /\ gen' = [gen EXCEPT !.values = @ \cup
                        {[i |-> i, channel |-> channel,
                          res |-> GetSample(
                                      song,
                                      SampleGenInfo(song, input.samplerate, i, channel)).res]}]
          /\ song' = SongAfterGetSample(
                         song, SampleGenInfo(song, input.samplerate, i, channel))
    /\ UNCHANGED <<input, text, gi, pc, expr, val, songRes, tokenizer, token>>

NextUnordered == StartUnordered \/ ComputePair

SpecUnordered == InitUnordered /\ [][NextUnordered]_vars

\* the value of the pair (i, channel) in the song the run was started on
RefSample(i, channel) ==
    GetSample(input.song, SampleGenInfo(input.song, input.samplerate, i, channel)).res

NameWritten == <<"\"", "x", "\"">>
LengthWritten == <<"1", " ", "s">>
ChannelWritten == <<"o", "n", " ", "1">>

SongFailsWith(kind) == songRes.tag = "Err" /\ songRes.err.kind = kind
PiecesParsed == pc = "parsed" /\ input.kind = "pieces"

\* the text starts with a token, and the token is no string literal: its first
\* character is a digit, a letter, a quote of a character literal or a
\* parenthesis
StartsWithOtherToken ==
    text # <<>> /\ text[1] \in Digits \cup Letters \cup {"'", "("}

\* C13: for every song text whose first token is not a string literal (for
\* example a text starting with a number), get_song returns the MissingName
\* error and does not panic.
C13_MissingName ==
    (PiecesParsed /\ StartsWithOtherToken) => SongFailsWith("MissingName")

\* C13 witness: a text starting with the number 1 in place of the name, and
\* well formed after it, has been parsed and failed with MissingName
C13_Witness ==
    /\ PiecesParsed
    /\ input.name = <<"1">> /\ input.length = LengthWritten
    /\ input.chan = ChannelWritten /\ input.source = SourceWhole
    /\ SongFailsWith("MissingName")

\* C14: a song text in which the name is directly followed by the channel
\* clause (no duration expression, e.g. "x" on 1) makes get_song return the
\* MissingDuration error, and a song text with a name and duration but no `on`
\* channel clause makes get_song return the MissingChannels error.
C14_MissingDurationAndChannels ==
    (PiecesParsed /\ input.name = NameWritten) =>
        /\ (input.length = <<>> /\ input.chan = ChannelWritten) =>
                SongFailsWith("MissingDuration")
        /\ (input.length = LengthWritten /\ input.chan = <<>>) =>
                SongFailsWith("MissingChannels")

\* the text ends before the song header is complete: it is empty, or holds
\* only the name, or ends within the length or within the channel clause
HeaderCutShort ==
    /\ input.source = <<>> /\ input.effects = <<>>
    /\ \/ input.name = <<>> /\ input.length = <<>> /\ input.chan = <<>>
       \/ input.name = NameWritten /\ input.length = <<>> /\ input.chan = <<>>
       \/ /\ input.name = NameWritten
          /\ input.length \in {<<"1">>, LengthWritten}
          /\ input.chan \in {<<>>, <<"o", "n">>}

\* C15: for every text that ends before the song header is complete (the
\* empty text, a text holding only the name, or a text ending before the
\* channel clause is complete), get_song returns an error value; it does not
\* panic.
C15_CutShortHeaderIsAnError ==
    (PiecesParsed /\ HeaderCutShort) => songRes.tag = "Err"

HeaderWritten ==
    /\ input.name = NameWritten
    /\ input.length = LengthWritten
    /\ input.chan = ChannelWritten

\* C16: if the text ends in the middle of a source declaration (after its
\* waveform identifier and before its channel and volume clauses are
\* complete), get_song returns an error; it never returns Ok with a Song from
\* which that source was silently omitted.
C16_CutShortSourceIsAnError ==
    (PiecesParsed /\ HeaderWritten /\ input.source \in SourceStarts) =>
        songRes.tag = "Err"

\* the effect blocks that hold the identifier wobble
UnknownEffectBlocks ==
    {<<"{", " ", "w", "o", "b", "b", "l", "e", " ", ":", " ", "}">>,
     <<"{", " ", "f", "a", "d", "e", "_", "i", "n", " ", ":", " ", "w", "o", "b", "b", "l", "e", " ", ":", " ", "}">>,
     <<"{", " ", "w", "o", "b", "b", "l", "e", " ", ":", " ", "f", "a", "d", "e", "_", "i", "n", " ", ":", " ", "}">>}

\* C18: inside an effect block, an effect identifier other than fade_in or
\* fade_out makes get_song fail with an unexpected-token error; the unknown
\* effect is never dropped with the parse still succeeding.
C18_UnknownEffectIsAnError ==
    (PiecesParsed /\ HeaderWritten /\ input.source = SourceWhole
        /\ input.effects \in UnknownEffectBlocks) =>
        songRes.tag = "Err" /\ songRes.err.kind \in {"Unexpected", "UnexpectedExact"}

(***************************************************************************)
(* Claims about parentheses and function calls (SpecExpr)                  *)
(***************************************************************************)
\* C17: an expression with a closing parenthesis that has no matching opener,
\* or with an opener that is never closed before the expression ends, makes
\* the parse return a defined error; parse_expression never panics on
\* mismatched parentheses.
C17_MismatchedParenthesesAreAnError ==
    (pc = "parsed" /\ input.kind = "paren" /\ input.shape \in MismatchedShapes) =>
        expr.tag = "Err"

\* the value of f(a op1 b) op2 c with the call applied to its own argument
RefArgument(x) ==
    IF x.op1 = "" THEN Int2Num(x.a) ELSE RefApply(x.op1, Int2Num(x.a), Int2Num(x.b))
RefCalled(x) == MathCall(FuncFromStr(x.f), RefArgument(x))
RefCallValue(x) ==
    IF x.op2 = "" THEN RefCalled(x) ELSE RefApply(x.op2, RefCalled(x), Int2Num(x.c))

\* C20: a function call applies only to its own parenthesised argument: for
\* every function f of the closed set and sub-expressions x and y, f(x) op y
\* evaluates to (f(x)) op y; e.g. abs(0 - 3) + 1 evaluates to 4 and sin(0)
\* evaluates to 0.
C20_CallAppliesToItsArgument ==
    /\ (pc = "parsed" /\ input.kind = "call") => expr.tag = "Some"
    /\ (pc = "evaluated" /\ input.kind = "call") =>
            val.ok /\ val.v = RefCallValue(input)

(***************************************************************************)
(* SpecTokens: the tokens of a text are asked from a Tokenizer, one         *)
(* get_next after the other, with emit_whitespace off                      *)
(***************************************************************************)
\* the tokens of the texts, and what is written between two of them
TokenWords == {<<"1">>, <<"x">>, <<"+">>, <<"o", "n">>, <<"\"", "s", "\"">>}
Separators ==
    {<<" ">>, <<"\n">>, <<"\t", " ">>,
     <<" ", "/", "/", " ", "c", "\n">>,
     <<" ", "/", "*", " ", "c", " ", "*", "/", " ">>,
     <<" ", "/", "*", "*", "/", " ", "/", "/", "\n", " ">>}
TokenCases ==
    {[kind |-> "tokens", first |-> a, sep1 |-> s1, second |-> b, sep2 |-> s2, third |-> c] :
        a \in TokenWords, s1 \in Separators, b \in TokenWords, s2 \in Separators,
        c \in {<<"1">>, <<"x">>}}

\* a number, and what is written right after it
NumberBodies == {<<"1">>, <<"1", "2">>, <<"1", ".", "5">>, <<"1", ".">>}
NumberTails ==
    {<<>>, <<"s">>, <<"m">>, <<"m", "s">>, <<"h">>, <<"h", "z">>, <<"m", "a">>,
     <<"h", "a">>, <<"h", " ", "a">>, <<"a">>, <<" ", "a">>, <<"\n">>, <<"\n", "a">>,
     <<".", "a">>, <<"+", "1">>}
NumberCases ==
    {[kind |-> "number", body |-> b, tail |-> t] : b \in NumberBodies, t \in NumberTails}

\* a string literal or a comment that holds a two-byte character (or, to
\* compare, a one-byte one), and two tokens after it
WideStarts ==
    {<<"\"", "e'", "\"">>, <<"/", "*", "e'", "*", "/">>, <<"\"", "e'", "e'", "\"">>,
     <<"\"", "e", "\"">>}
WideCases ==
    {[kind |-> "wide", start |-> w, sep1 |-> s1, second |-> b, third |-> c] :
        w \in WideStarts, s1 \in {<<>>, <<" ">>}, b \in TokenWords,
        c \in {<<"1">>, <<"x">>}}

\* a text that ends inside a comment: a token, and a comment with no end
CutComments ==
    {<<"/", "/">>, <<"/", "/", " ", "c">>, <<"/", "*">>, <<"/", "*", " ", "c">>,
     <<"/", "*", " ", "c", " ", "*">>, <<"/", "*", "/", "*", "c", "*", "/">>}
CutCommentCases ==
    {[kind |-> "cut comment", first |-> a, sep1 |-> s1, comment |-> c] :
        a \in TokenWords \cup {<<>>}, s1 \in {<<>>, <<" ">>, <<"\n">>}, c \in CutComments}

TokensText(x) ==
    CASE x.kind = "tokens" -> x.first \o x.sep1 \o x.second \o x.sep2 \o x.third
      [] x.kind = "number" -> x.body \o x.tail
      [] x.kind = "wide" -> x.start \o x.sep1 \o x.second \o <<" ">> \o x.third
      [] x.kind = "cut comment" -> x.first \o x.sep1 \o x.comment

InitTokens ==
    /\ input \in TokenCases \cup NumberCases \cup WideCases \cup CutCommentCases
    /\ text = TokensText(input)
    /\ gi = NoGi
    /\ pc = "start"
    /\ expr = Idle
    /\ val = Idle
    /\ songRes = Idle
    /\ song = Idle
    /\ gen = Idle
    /\ tokenizer = NewTokenizer(text)
    /\ token = Idle

\* tokenizer.get_next(): the run goes on while tokens are returned
GetNextToken ==
    /\ pc \in {"start", "token"}
    /\ token' = [tag |-> GetNext(tokenizer).tag, tok |-> GetNext(tokenizer).tok,
                 err |-> GetNext(tokenizer).err]
    /\ tokenizer' = GetNext(tokenizer).tz
    /\ pc' = IF GetNext(tokenizer).tag = "Some" THEN "token" ELSE "end"
    /\ UNCHANGED <<input, text, gi, expr, val, songRes, song, gen>>

NextTokens == GetNextToken

SpecTokens == InitTokens /\ [][NextTokens]_vars

\* C19: with emit-whitespace off (the default), Tokenizer::get_next never
\* returns a Whitespace, SingleLineComment or MultiLineComment token:
\* whitespace and comments between two tokens are skipped.
C19_NoWhitespaceOrCommentToken ==
    (pc = "token" /\ ~tokenizer.emit_whitespace) =>
        token.tok.ty \notin {"Whitespace", "SingleLineComment", "MultiLineComment"}

(***************************************************************************)
(* Claims about source lists, plain frequencies and the song length        *)
(* (SpecSong)                                                              *)
(***************************************************************************)
\* the gen::Source a declaration of SourcesCases stands for
RefDeclared(d) ==
    [ty |-> [ty |-> PeriodicSourceOf(d.wave), freq |-> Lit(Int2Num(1)), phase |-> ExprZero],
     start |-> Int2Num(0), end |-> Int2Num(1),
     channels |-> IF d.chan = "*" THEN ChannelsAll ELSE ChannelsOne(0),
     volume |-> Lit(Int2Num(d.vol)), effects |-> <<>>]

\* C21: a song text with n >= 2 well-formed source declarations, none of them
\* followed by an effect block, parses to a Song whose source list has exactly
\* n entries in declaration order: the volume expression of a source ends
\* where the next source's waveform identifier begins.
C21_SourcesInDeclarationOrder ==
    (pc = "parsed" /\ input.kind = "sources") =>
        /\ songRes.tag = "Ok"
        /\ songRes.song.sources =
              [i \in 1 .. Len(input.decls) |-> RefDeclared(input.decls[i])]

\* C22: a source whose frequency expression carries no hz suffix, e.g.
\* sin(440, 0:1) on * @ 1, parses to a source with frequency expression 440
\* and timeframe (0, 1): the comma ends the frequency expression and is then
\* consumed as the separator before the timeframe.
C22_CommaEndsFrequency ==
    (pc = "parsed" /\ input.kind = "plain freq") =>
        /\ songRes.tag = "Ok"
        /\ Len(songRes.song.sources) = 1
        /\ songRes.song.sources[1].ty.freq = Lit(Int2Num(input.freq))
        /\ songRes.song.sources[1].start = RefBound(input.start, 0, Int2Num(1))
        /\ songRes.song.sources[1].end = RefBound(input.end, 1, Int2Num(1))

\* C23: if the song's duration expression references t, channel or an unknown
\* name (e.g. "x" t s on 1), get_song returns a parser error wrapping the
\* expression error (NoGenInfo or UnknownVar); it does not panic.
C23_LengthNameFailureIsAnError ==
    (pc = "parsed" /\ input.kind = "length name" /\ NameFailure(input.name, NoGi) # "") =>
        /\ SongFailsWith("Expression")
        /\ songRes.err.inner = NameFailure(input.name, NoGi)

(***************************************************************************)
(* Claims about function names (SpecExpr)                                  *)
(***************************************************************************)
\* the function a name of the closed set stands for
RefFunc(name) ==
    CASE name = <<"s", "i", "n">> -> "Sin"
      [] name = <<"c", "o", "s">> -> "Cos"
      [] name = <<"t", "a", "n">> -> "Tan"
      [] name = <<"l", "n">> -> "Ln"
      [] name \in {<<"l", "g">>, <<"l", "o", "g", "1", "0">>} -> "Log10"
      [] name = <<"l", "o", "g", "2">> -> "Log2"
      [] name = <<"s", "q", "r", "t">> -> "Sqrt"
      [] name = <<"a", "b", "s">> -> "Abs"
      [] name = <<"r", "o", "u", "n", "d">> -> "Round"
      [] name = <<"f", "l", "o", "o", "r">> -> "Floor"
      [] name = <<"c", "e", "i", "l">> -> "Ceil"
      [] name = <<"r", "a", "d">> -> "Rad"
      [] name = <<"d", "e", "g">> -> "Deg"

\* C24: every function name of the closed set (sin, cos, tan, ln, lg, log10,
\* log2, sqrt, abs, round, floor, ceil, rad, deg) written in song text as
\* name(arg) is tokenized and parsed as a call of that function; in particular
\* log2(8) evaluates to 3 and log10(100) evaluates to 2.
C24_FunctionNamesAreCalls ==
    /\ (pc = "parsed" /\ input.kind = "named call") =>
            /\ expr.tag = "Some"
            /\ expr.v.op = "Call"
            /\ expr.v.f = RefFunc(input.f)
            /\ expr.v.f0 = Lit(Int2Num(input.a))
    /\ (pc = "evaluated" /\ input.kind = "named call" /\ input.f = <<"l", "o", "g", "2">>
            /\ input.a = 8) => val.ok /\ val.v = Int2Num(3)
    /\ (pc = "evaluated" /\ input.kind = "named call"
            /\ input.f = <<"l", "o", "g", "1", "0">> /\ input.a = 100) =>
            val.ok /\ val.v = Int2Num(2)

(***************************************************************************)
(* Claims about the value of a sample (SpecGen)                            *)
(***************************************************************************)
\* the source-local context of the source k at the sample i of the channel c
RefLocal(k, i, c) ==
    SomeGi(c, NumDiv(NumSub(RefTime(i), song.sources[k].start),
                     NumSub(song.sources[k].end, song.sources[k].start)))

\* the factor of the effect e at the source-local time t1
RefFactor(e, t1) ==
    IF NumLe(e.start, t1) /\ NumLe(t1, e.end)
    THEN IF e.ty = "FadeIn"
         THEN NumDiv(NumSub(t1, e.start), NumSub(e.end, e.start))
         ELSE NumSub(Int2Num(1), NumDiv(NumSub(t1, e.start), NumSub(e.end, e.start)))
    ELSE Int2Num(1)

\* the waveform's value times the factors of the effects, in declared order
RECURSIVE RefFaded(_, _, _)
RefFaded(v, effects, t1) ==
    IF effects = <<>> THEN v
    ELSE RefFaded(NumMul(v, RefFactor(Head(effects), t1)), Tail(effects), t1)

\* waveform(t') x effect factors x volume(t') of the source k
RefSourceValue(k, i, c) ==
    NumMul(RefFaded(SourceTypeGen(song.sources[k].ty, RefLocal(k, i, c)).v,
                    song.sources[k].effects, RefLocal(k, i, c).t),
           Evaluate(song.sources[k].volume, RefLocal(k, i, c)).v)

\* the plain sum of the values of the sources 1 .. k that are active
RECURSIVE RefSum(_, _, _)
RefSum(k, i, c) ==
    IF k = 0 THEN Int2Num(0)
    ELSE IF RefActive(k, i, c) THEN NumAdd(RefSum(k - 1, i, c), RefSourceValue(k, i, c))
    ELSE RefSum(k - 1, i, c)

\* C25: for an active source at source-local time t', Source::gen returns
\* waveform(t') times the product of effect factors times volume(t'), where,
\* in declared order, an effect with window [s, e] contributes the factor t''
\* (FadeIn) or 1 - t'' (FadeOut) with t'' = (t' - s) / (e - s) exactly when
\* s <= t' <= e and the factor 1 otherwise; get_sample returns the plain sum of
\* these values over all sources active for the channel, and 0 when none is
\* active.  (Stated of the songs none of whose expressions fails.)
C25_SampleIsSumOfSourceValues ==
    (/\ pc \in {"loop", "done"}
     /\ gen.last.i >= 0
     /\ \A k \in 1 .. Len(song.sources) : ~RefFailing(k)) =>
        /\ gen.last.res.ok
        /\ gen.last.res.v = RefSum(Len(song.sources), gen.last.i, gen.last.channel)

\* C25 happens: the last sample of a song of two sources, the first with a
\* FadeIn and a FadeOut that both hold its time, was mixed from both sources
\* and is neither of the two values alone
C25_Witness ==
    /\ pc = "done"
    /\ gen.status = "ok"
    /\ input.kind = "mix"
    /\ Len(song.sources) = 2
    /\ song.sources[1].effects[1].ty = "FadeIn"
    /\ song.sources[1].effects[2].ty = "FadeOut"
    /\ gen.last.i = 1
    /\ RefActive(1, 1, 0) /\ RefActive(2, 1, 0)
    /\ RefFactor(song.sources[1].effects[1], RefLocal(1, 1, 0).t) = Rat(1, 2)
    /\ RefFactor(song.sources[1].effects[2], RefLocal(1, 1, 0).t) = Rat(1, 2)
    /\ gen.last.res.v \notin {RefSourceValue(1, 1, 0), RefSourceValue(2, 1, 0), Int2Num(0)}

(***************************************************************************)
(* Claims about the tokenizer's reads, positions and termination           *)
(* (SpecTokens)                                                            *)
(***************************************************************************)
\* the characters the tokenizer reads next: its pushback buffer from the top
\* down, then the characters the source has not handed out
PendingInput(tz) ==
    [i \in 1 .. Len(tz.buffer) |-> tz.buffer[Len(tz.buffer) + 1 - i]]
    \o SubSeq(tz.chars, tz.pos + 1, Len(tz.chars))

\* the last n characters of the text
TextEnd(n) == SubSeq(text, Len(text) - n + 1, Len(text))

\* C26: whenever the tokenizer pushes back characters it read while looking
\* ahead (after a numeric body, after a `.` not followed by a digit, after an
\* m or h that does not complete a suffix), those characters are read again
\* next in their original source order, so the characters consumed over
\* successive tokens are exactly the source text in order.
C26_PushedBackInSourceOrder ==
    pc = "token" =>
        PendingInput(tokenizer) = TextEnd(Len(PendingInput(tokenizer)))

\* C28: for every token of a text supplied by the in-memory string provider,
\* including texts that contain multi-byte characters before the token, the
\* text looked up from the token's position (start .. end + 1) is exactly the
\* sequence of characters the tokenizer consumed for that token.
C28_TokenTextIsWhatWasConsumed ==
    pc = "token" =>
        GetTextOfRange(text, token.tok) = [panic |-> FALSE, text |-> tokenizer.read]

\* C29: for every finite source text, each call of Tokenizer::get_next
\* terminates, returning a token, an error or end-of-input, also when the text
\* ends inside a // comment without a final newline or inside a /* */ comment
\* that is never closed.
C29_GetNextTerminates ==
    pc \in {"token", "end"} => token.tag \in {"Some", "None", "Err"}

\* C30: after any sequence of character reads and pushbacks the tokenizer
\* performs on any input, its unsigned column counter and absolute position
\* never go below 0 and its line-start list keeps at least its initial entry;
\* in particular tokenizing `1.` followed by a newline causes no unsigned
\* underflow.
C30_NoUnsignedUnderflow ==
    /\ ~tokenizer.underflow
    /\ tokenizer.column >= 0
    /\ tokenizer.absolute_pos >= 0
    /\ Len(tokenizer.lines) >= 1

(***************************************************************************)
(* Claims about the parser's pushback buffer (SpecExpr)                    *)
(***************************************************************************)
\* C27: at every point of a parse the parser's pushback buffer holds at most
\* one token, and a token that was pushed back is the very next token returned
\* by get_token, so tokens reach the grammar in source order.  (Stated of the
\* parser parse_expression returns: get_token pops the buffer from its end.)
C27_OneTokenPushback ==
    (pc = "parsed" /\ expr.tag = "Some") =>
        /\ Len(expr.p.buffer) <= 1
        /\ \A i \in 1 .. Len(expr.p.buffer) : \A j \in 1 .. Len(expr.p.buffer) :
              i < j => expr.p.buffer[j].start < expr.p.buffer[i].start
====
